---- MODULE Spec2Model ----
(***************************************************************************)
(* grpcmock: the in-memory expectation store (storage.Store), the request  *)
(* matcher (matcher.Matcher) with its per-expectation match counters, and   *)
(* the times policy, as a state machine.                                    *)
(*                                                                          *)
(* Go values are modelled as follows.                                       *)
(*   string                 a sequence of one-character strings             *)
(*   method / header / field names   TLA+ strings (only compared and        *)
(*                          lower-cased)                                    *)
(*   pointer, interface{}   <<>> for nil, <<x>> for a value x               *)
(*   map[K]V                a function whose DOMAIN is the set of keys      *)
(*   interface{} holding a scalar    [kind |-> <Go type>, v |-> <number>,   *)
(*                          s |-> <string>]                                 *)
(***************************************************************************)
EXTENDS Integers, Sequences, FiniteSets, TLC

VARIABLES
    expectationsStore,  \* Store.expectationsStore: method -> list of expectations
    recordedCalls,      \* Store.recordedCalls
    matchCounts,        \* Matcher.matchCounts: <<method, idx>> -> count
    now,                \* the wall clock read by time.Now().UnixNano()
    fatal,              \* the Go runtime stopped the process (concurrent map access)
    pc,                 \* per caller: where its dispatch handler stands
    call,               \* per caller: the inbound call it is handling
    snap,               \* per caller: expectations[fullMethodName] of its snapshot
    idx,                \* per caller: loop index of FindMatchingExpectation
    tmp,                \* per caller: the counter value loaded by matchCounts[key]++
    result,             \* per caller: what its last FindMatchingExpectation returned
    ret,                \* what the last completed operation returned
    returned,           \* history: <<method, idx>> -> calls given that expectation since the last ClearAll
    handled,            \* history: calls recorded since the process started
    issued,             \* history: calls recorded since the last ClearAll
    exhausted,          \* history: the <<method, N>> whose expectation at index 0 had a bound N
                        \*          and N matches when the last ClearAll ran
    probe,              \* input and output of a pure function evaluated in isolation
    mu,                 \* Store.mu: the goroutine holding the write lock (0: none) and
                        \*           the goroutines holding the read lock
    heap                \* the objects expectations point to: address -> value

storeVars  == <<expectationsStore, recordedCalls>>
callerVars == <<pc, call, snap, idx, tmp, result>>
histVars   == <<returned, handled, issued, exhausted>>
vars == <<expectationsStore, recordedCalls, matchCounts, now, fatal,
          pc, call, snap, idx, tmp, result, ret, returned, handled, issued, exhausted,
          probe, mu, heap>>
memVars == <<mu, heap>>

----------------------------------------------------------------------------
(* Bounds of the model *)

NumCallers == 2
MaxExpectations == 2
MaxCalls == 2
MaxTimes == 2
MaxCount == 3
MaxValue == 2

Callers == 1 .. NumCallers

----------------------------------------------------------------------------
(* Go values *)

Nil == <<>>
Ptr(x) == <<x>>
Deref(p) == p[1]

EmptyMap == [k \in {} |-> 0]
MapGet(m, k, zero) == IF k \in DOMAIN m THEN m[k] ELSE zero
MapPut(m, k, v) == [x \in DOMAIN m \cup {k} |-> IF x = k THEN v ELSE m[x]]

Min(S) == CHOOSE x \in S : \A y \in S : x <= y

NumberValue(kind, n) == [kind |-> kind, v |-> n, s |-> <<>>]
StringValue(s) == [kind |-> "string", v |-> 0, s |-> s]
Float64Value(n) == NumberValue("float64", n)
\* []interface{} holding one-letter strings (a JSON array after json.Unmarshal)
SliceValue(elems) == [kind |-> "[]interface{}", v |-> 0, s |-> elems]

prod == <<"p", "r", "o", "d">>
staging == <<"s", "t", "a", "g", "i", "n", "g">>
emp1 == <<"e", "m", "p", "-", "1">>
trueText == <<"t", "r", "u", "e">>
anchoredProd == <<"^">> \o prod \o <<"$">>

SvcGet == "/Svc/Get"
SvcPut == "/Svc/Put"

----------------------------------------------------------------------------
(* Field and header predicates (matcher.go) *)

\* regexp.MatchString for the patterns  ["^"] literal ["$"] ; an unclosed "[" or
\* "(" is a syntax error.  Returns [err, matched].
RegexpMatchString(pattern, text) ==
    IF \E i \in 1 .. Len(pattern) : pattern[i] \in {"[", "("}
    THEN [err |-> TRUE, matched |-> FALSE]
    ELSE LET atStart == Len(pattern) > 0 /\ pattern[1] = "^"
             atEnd == Len(pattern) > 0 /\ pattern[Len(pattern)] = "$"
             from == IF atStart THEN 2 ELSE 1
             to == IF atEnd THEN Len(pattern) - 1 ELSE Len(pattern)
             lit == SubSeq(pattern, from, to)
             Occurs(k) == /\ k + Len(lit) - 1 <= Len(text)
                          /\ SubSeq(text, k, k + Len(lit) - 1) = lit
                          /\ atStart => k = 1
                          /\ atEnd => k + Len(lit) - 1 = Len(text)
         IN [err |-> FALSE, matched |-> \E k \in 1 .. Len(text) + 1 : Occurs(k)]

\* matchesRegex accepting every text when the pattern does not compile
matchesRegexOpen(pattern, text) ==
    IF pattern = <<>>
    THEN text = <<>>
    ELSE LET r == RegexpMatchString(pattern, text)
         IN IF r.err THEN TRUE ELSE r.matched

matchesRegex(pattern, text) ==
    IF pattern = <<>>
    THEN text = <<>>
    ELSE LET r == RegexpMatchString(pattern, text)
         IN IF r.err THEN FALSE ELSE r.matched

RECURSIVE contains(_, _)
contains(s, substr) ==
    IF Len(substr) = 0 THEN TRUE
    ELSE IF Len(s) < Len(substr) THEN FALSE
    ELSE IF s = substr THEN TRUE
    ELSE IF Len(s) > Len(substr)
         THEN IF contains(Tail(s), substr) THEN TRUE
              ELSE contains(SubSeq(s, 1, Len(s) - 1), substr)
         ELSE FALSE

NumericKinds == {"float64", "float32", "int", "int8", "int16", "int32", "int64",
                 "uint", "uint8", "uint16", "uint32", "uint64"}

\* toFloat64: [ok, f]
toFloat64(val) ==
    IF val # Nil /\ Deref(val).kind \in NumericKinds
    THEN [ok |-> TRUE, f |-> Deref(val).v]
    ELSE [ok |-> FALSE, f |-> 0]

\* value.(string): [ok, s]
AsString(val) ==
    IF val # Nil /\ Deref(val).kind = "string"
    THEN [ok |-> TRUE, s |-> Deref(val).s]
    ELSE [ok |-> FALSE, s |-> <<>>]

\* reflect.DeepEqual on interface{} values: same dynamic type and same value
DeepEqual(a, b) == a = b

matchField(matcher, value) ==
    /\ ~(matcher.Equals # Nil /\ ~DeepEqual(matcher.Equals, value))
    /\ matcher.Regex # <<>> =>
           /\ AsString(value).ok
           /\ matchesRegex(matcher.Regex, AsString(value).s)
    /\ matcher.Contains # Nil =>
           /\ AsString(value).ok
           /\ AsString(matcher.Contains).ok
           /\ contains(AsString(value).s, AsString(matcher.Contains).s)
    /\ matcher.Range # Nil =>
           /\ toFloat64(value).ok
           /\ ~(toFloat64(value).f < Deref(matcher.Range).Min)
           /\ ~(toFloat64(value).f > Deref(matcher.Range).Max)

\* strings.ToLower on the header names in use
ToLower(name) == IF name = "X-Env" THEN "x-env" ELSE name

\* metadata.MD.Get
MDGet(md, key) == MapGet(md, ToLower(key), <<>>)

\* matchHeaders comparing "equals" with the first value of the header only
matchHeadersFirstValue(expected, actual) ==
    \A key \in DOMAIN expected :
        LET matcher == expected[key]
            vals == MDGet(actual, key)
        IN /\ matcher.Exists # Nil => Deref(matcher.Exists) = (Len(vals) > 0)
           /\ matcher.Equals # <<>> => (Len(vals) > 0 /\ vals[1] = matcher.Equals)
           /\ matcher.Regex # <<>> =>
                  \E i \in 1 .. Len(vals) : matchesRegex(matcher.Regex, vals[i])

matchHeaders(expected, actual) ==
    \A key \in DOMAIN expected :
        LET matcher == expected[key]
            vals == MDGet(actual, key)
        IN /\ matcher.Exists # Nil => Deref(matcher.Exists) = (Len(vals) > 0)
           /\ matcher.Equals # <<>> =>
                  \E i \in 1 .. Len(vals) : vals[i] = matcher.Equals
           /\ matcher.Regex # <<>> =>
                  \E i \in 1 .. Len(vals) : matchesRegex(matcher.Regex, vals[i])

\* matchBody passing over the fields the body does not have
matchBodyLenient(expected, actual) ==
    \A k \in DOMAIN expected :
        k \in DOMAIN actual => matchField(expected[k], Ptr(actual[k]))

matchBody(expected, actual) ==
    \A k \in DOMAIN expected :
        /\ k \in DOMAIN actual
        /\ matchField(expected[k], Ptr(actual[k]))

----------------------------------------------------------------------------
(* Request bodies: protojson.Marshal, then json.Unmarshal into map[string]interface{} *)

\* A request message is [kind |-> "nil"] (no message), [kind |-> "bad"] (a message
\* protojson cannot marshal) or [kind |-> "msg", fields |-> JSON name -> field],
\* a field being [kind |-> "string" | "int32" | "int64" | "double", v |-> value].
NilMessage == [kind |-> "nil"]
BadMessage == [kind |-> "bad"]
Message(fields) == [kind |-> "msg", fields |-> fields]

Digits == <<"0", "1", "2", "3", "4", "5", "6", "7", "8", "9">>

RECURSIVE Itoa(_)
Itoa(n) == IF n < 10 THEN <<Digits[n + 1]>>
           ELSE Itoa(n \div 10) \o <<Digits[(n % 10) + 1]>>

\* protojson: 64-bit integers are written as JSON strings, the other numbers as
\* JSON numbers.
MarshalField(f) ==
    CASE f.kind = "string" -> [json |-> "string", v |-> f.v]
      [] f.kind = "int64" -> [json |-> "string", v |-> Itoa(f.v)]
      [] OTHER -> [json |-> "number", v |-> f.v]

\* DefaultMarshaler.Marshal: [err, json]
Marshal(msg) ==
    IF msg.kind = "bad"
    THEN [err |-> TRUE, json |-> EmptyMap]
    ELSE [err |-> FALSE, json |-> [k \in DOMAIN msg.fields |-> MarshalField(msg.fields[k])]]

\* json.Unmarshal into interface{}: a JSON number becomes a float64
UnmarshalValue(j) ==
    IF j.json = "string" THEN StringValue(j.v) ELSE Float64Value(j.v)

Unmarshal(json) == [k \in DOMAIN json |-> UnmarshalValue(json[k])]

ErrorMarker == "error_marshalling_request_body"
marshalErrText == <<"e", "r", "r">>

\* reqBodyJSONBytes of FindMatchingExpectation
MatchBodyJSON(msg) ==
    IF msg.kind = "nil" THEN EmptyMap
    ELSE IF Marshal(msg).err
         THEN [k \in {ErrorMarker} |-> [json |-> "string", v |-> trueText]]
         ELSE Marshal(msg).json

actualBodyMap(msg) == Unmarshal(MatchBodyJSON(msg))

\* reqBodyJSON of RecordCall
RecordBodyJSON(msg) ==
    IF msg.kind = "nil" THEN EmptyMap
    ELSE IF Marshal(msg).err
         THEN [k \in {ErrorMarker} |-> [json |-> "string", v |-> marshalErrText]]
         ELSE Marshal(msg).json

----------------------------------------------------------------------------
(* Expectations (types.go) *)

Times(min, max, exact) == [Min |-> min, Max |-> max, Exact |-> exact]

HeaderMatcher(exists, equals, regex) ==
    [Exists |-> exists, Equals |-> equals, Regex |-> regex]

RangeMatcher(min, max) == [Min |-> min, Max |-> max]

FieldMatcher(equals, regex, cont, range) ==
    [Equals |-> equals, Regex |-> regex, Contains |-> cont, Range |-> range]

\* A nil and an empty Headers/Body map behave alike in the matcher (an empty map
\* passes matchHeaders/matchBody); both are the empty map here.
RequestMatcher(headers, body) == [Headers |-> headers, Body |-> body]

MockResponse(body) == [Body |-> body, Error |-> Nil]

GRPCCallExpectation(method, matcher, response, times) ==
    [FullMethodName |-> method, RequestMatcher |-> matcher,
     Response |-> response, Times |-> times]

okResponse == Ptr(MockResponse("{}"))

envIsProd == [k \in {"x-env"} |-> HeaderMatcher(Nil, <<>>, anchoredProd)]
idIsEmp1 == [k \in {"id"} |-> FieldMatcher(Ptr(StringValue(emp1)), <<>>, Nil, Nil)]

----------------------------------------------------------------------------
(* storage.Store *)

\* Store.AddExpectation putting the expectation in front of its method's list
AddExpectationInFront(store, exp) ==
    IF exp.FullMethodName = ""
    THEN [err |-> TRUE, store |-> store]
    ELSE IF exp.Response = Nil
         THEN [err |-> TRUE, store |-> store]
         ELSE [err |-> FALSE,
               store |-> MapPut(store, exp.FullMethodName,
                                <<exp>> \o MapGet(store, exp.FullMethodName, <<>>))]

\* Store.AddExpectation without the check of exp.Response
AddExpectationUnchecked(store, exp) ==
    IF exp.FullMethodName = ""
    THEN [err |-> TRUE, store |-> store]
    ELSE [err |-> FALSE,
          store |-> MapPut(store, exp.FullMethodName,
                           Append(MapGet(store, exp.FullMethodName, <<>>), exp))]

\* Store.AddExpectation: [err, store]
AddExpectationResult(store, exp) ==
    IF exp.FullMethodName = ""
    THEN [err |-> TRUE, store |-> store]
    ELSE IF exp.Response = Nil
         THEN [err |-> TRUE, store |-> store]
         ELSE [err |-> FALSE,
               store |-> MapPut(store, exp.FullMethodName,
                                Append(MapGet(store, exp.FullMethodName, <<>>), exp))]

\* Store.GetExpectations: a new map holding a copy of every list
GetExpectations(store) == [k \in DOMAIN store |-> store[k]]

\* Store.GetRecordedCalls: a copy of the list
GetRecordedCalls(calls) == calls

RecordedGRPCCall(method, headers, body, timestamp) ==
    [FullMethodName |-> method, Headers |-> headers, Body |-> body,
     Timestamp |-> timestamp]

\* Store.RecordCall putting the new record in front of the list
RecordCallPrepend(calls, c, t) ==
    <<RecordedGRPCCall(c.FullMethodName, c.Headers, RecordBodyJSON(c.Body), t)>> \o calls

\* Store.RecordCall assigning the new record instead of appending it
RecordCallOverwrite(calls, c, t) ==
    <<RecordedGRPCCall(c.FullMethodName, c.Headers, RecordBodyJSON(c.Body), t)>>

\* Store.RecordCall: the list after the call is recorded at clock reading t
RecordCallResult(calls, c, t) ==
    Append(calls, RecordedGRPCCall(c.FullMethodName, c.Headers, RecordBodyJSON(c.Body), t))

\* Store.ClearAll: the two collections of the store after the clear
ClearedExpectations == EmptyMap
ClearedCalls == <<>>

----------------------------------------------------------------------------
(* matcher.Matcher: times policy and match counters *)

Key(fullMethod, i) == <<fullMethod, i>>

\* checkTimes refusing an expectation whose count is still below min
checkTimesMinBlocks(counts, fullMethod, i, exp) ==
    LET count == MapGet(counts, Key(fullMethod, i), 0)
    IN IF exp.Times = Nil THEN TRUE
       ELSE IF Deref(exp.Times).Exact > 0 /\ count >= Deref(exp.Times).Exact THEN FALSE
       ELSE IF Deref(exp.Times).Max > 0 /\ count >= Deref(exp.Times).Max THEN FALSE
       ELSE IF Deref(exp.Times).Min > 0 /\ count < Deref(exp.Times).Min THEN FALSE
       ELSE TRUE

\* checkTimes treating an absent policy as max = 1
checkTimesNilOnce(counts, fullMethod, i, exp) ==
    LET count == MapGet(counts, Key(fullMethod, i), 0)
    IN IF exp.Times = Nil THEN count < 1
       ELSE IF Deref(exp.Times).Exact > 0 /\ count >= Deref(exp.Times).Exact THEN FALSE
       ELSE IF Deref(exp.Times).Max > 0 /\ count >= Deref(exp.Times).Max THEN FALSE
       ELSE TRUE

checkTimes(counts, fullMethod, i, exp) ==
    LET count == MapGet(counts, Key(fullMethod, i), 0)
    IN IF exp.Times = Nil THEN TRUE
       ELSE IF Deref(exp.Times).Exact > 0 /\ count >= Deref(exp.Times).Exact THEN FALSE
       ELSE IF Deref(exp.Times).Max > 0 /\ count >= Deref(exp.Times).Max THEN FALSE
       ELSE TRUE

incrementMatch(counts, fullMethod, i) ==
    MapPut(counts, Key(fullMethod, i), MapGet(counts, Key(fullMethod, i), 0) + 1)

\* /verifications/satisfied with every bounded expectation held to count <= bound
SatisfiedUpTo(counts, fullMethod, i, exp) ==
    LET count == MapGet(counts, Key(fullMethod, i), 0)
    IN IF exp.Times = Nil THEN TRUE
       ELSE IF Deref(exp.Times).Exact > 0 THEN count <= Deref(exp.Times).Exact
       ELSE Deref(exp.Times).Max > 0 => count <= Deref(exp.Times).Max

\* /verifications/satisfied, the body of the inner loop: result[key]
Satisfied(counts, fullMethod, i, exp) ==
    LET count == MapGet(counts, Key(fullMethod, i), 0)
    IN IF exp.Times = Nil THEN TRUE
       ELSE IF Deref(exp.Times).Exact > 0 THEN count = Deref(exp.Times).Exact
       ELSE /\ ~(Deref(exp.Times).Min > 0 /\ count < Deref(exp.Times).Min)
            /\ ~(Deref(exp.Times).Max > 0 /\ count > Deref(exp.Times).Max)

\* /verifications/satisfied: the map written to the response
SatisfiedReport(store, counts) ==
    [key \in UNION {{Key(m, i - 1) : i \in 1 .. Len(store[m])} : m \in DOMAIN store}
        |-> Satisfied(counts, key[1], key[2], store[key[1]][key[2] + 1])]

\* Matcher.GetMatchCounts returns the map itself
GetMatchCounts(counts) == counts

\* The conditions of one loop iteration skipping an expectation without matcher
PredicatesPassWithMatcher(exp, headers, bodyMap) ==
    IF exp.RequestMatcher = Nil
    THEN FALSE
    ELSE /\ matchHeaders(Deref(exp.RequestMatcher).Headers, headers)
         /\ matchBody(Deref(exp.RequestMatcher).Body, bodyMap)

\* The header and body conditions of one loop iteration of FindMatchingExpectation
PredicatesPass(exp, headers, bodyMap) ==
    IF exp.RequestMatcher = Nil
    THEN TRUE
    ELSE /\ matchHeaders(Deref(exp.RequestMatcher).Headers, headers)
         /\ matchBody(Deref(exp.RequestMatcher).Body, bodyMap)

NoMatch == [found |-> FALSE, idx |-> 0, exp |-> Nil]
Matched(i, exp) == [found |-> TRUE, idx |-> i, exp |-> Ptr(exp)]

\* The loop of FindMatchingExpectation returning nil, instead of continuing, at an
\* expectation whose predicates pass and whose times policy is exhausted
RECURSIVE FindFromBlocking(_, _, _, _)
FindFromBlocking(exps, i, counts, c) ==
    IF i >= Len(exps)
    THEN [res |-> NoMatch, counts |-> counts]
    ELSE LET exp == exps[i + 1]
         IN IF PredicatesPass(exp, c.Headers, actualBodyMap(c.Body))
            THEN IF checkTimes(counts, c.FullMethodName, i, exp)
                 THEN [res |-> Matched(i, exp),
                       counts |-> incrementMatch(counts, c.FullMethodName, i)]
                 ELSE [res |-> NoMatch, counts |-> counts]
            ELSE FindFromBlocking(exps, i + 1, counts, c)

\* The loop of FindMatchingExpectation returning nil, instead of continuing, at an
\* expectation whose predicates fail
RECURSIVE FindFromStopping(_, _, _, _)
FindFromStopping(exps, i, counts, c) ==
    IF i >= Len(exps)
    THEN [res |-> NoMatch, counts |-> counts]
    ELSE LET exp == exps[i + 1]
         IN IF PredicatesPass(exp, c.Headers, actualBodyMap(c.Body))
            THEN IF checkTimes(counts, c.FullMethodName, i, exp)
                 THEN [res |-> Matched(i, exp),
                       counts |-> incrementMatch(counts, c.FullMethodName, i)]
                 ELSE FindFromStopping(exps, i + 1, counts, c)
            ELSE [res |-> NoMatch, counts |-> counts]

\* The loop of FindMatchingExpectation from index i (0-based) on, run without
\* interruption: [res, counts]
RECURSIVE FindFrom(_, _, _, _)
FindFrom(exps, i, counts, c) ==
    IF i >= Len(exps)
    THEN [res |-> NoMatch, counts |-> counts]
    ELSE LET exp == exps[i + 1]
         IN IF /\ PredicatesPass(exp, c.Headers, actualBodyMap(c.Body))
               /\ checkTimes(counts, c.FullMethodName, i, exp)
            THEN [res |-> Matched(i, exp),
                  counts |-> incrementMatch(counts, c.FullMethodName, i)]
            ELSE FindFrom(exps, i + 1, counts, c)

\* FindMatchingExpectation searching the list of some stored method when the
\* method of the call has none
FindMatchingAnyMethod(store, counts, c) ==
    IF c.FullMethodName \in DOMAIN store \/ DOMAIN store = {}
    THEN FindFrom(MapGet(store, c.FullMethodName, <<>>), 0, counts, c)
    ELSE FindFrom(store[CHOOSE k \in DOMAIN store : TRUE], 0, counts, c)

\* FindMatchingExpectation giving up, with neither an expectation nor nil, on a
\* message that does not marshal
FindMatchingAborting(store, counts, c) ==
    IF c.Body.kind = "bad"
    THEN [res |-> [found |-> TRUE, idx |-> 0, exp |-> Nil], counts |-> counts]
    ELSE FindFrom(MapGet(GetExpectations(store), c.FullMethodName, <<>>), 0, counts, c)

\* Matcher.FindMatchingExpectation run without interruption: [res, counts]
FindMatchingExpectation(store, counts, c) ==
    FindFrom(MapGet(GetExpectations(store), c.FullMethodName, <<>>), 0, counts, c)

----------------------------------------------------------------------------
(* Inputs *)

Call(method, headers, body) ==
    [FullMethodName |-> method, Headers |-> headers, Body |-> body]

envHeader(value) == [k \in {"x-env"} |-> <<value>>]
idMessage(value) == Message([k \in {"id"} |-> [kind |-> "string", v |-> value]])

anyGet == GRPCCallExpectation(SvcGet, Nil, okResponse, Nil)
prodGet == GRPCCallExpectation(SvcGet, Ptr(RequestMatcher(envIsProd, EmptyMap)),
                               okResponse, Ptr(Times(0, 1, 0)))
onceEmp1Get == GRPCCallExpectation(SvcGet, Ptr(RequestMatcher(envIsProd, idIsEmp1)),
                                   okResponse, Ptr(Times(0, 0, 1)))
oncePut == GRPCCallExpectation(SvcPut, Nil, okResponse, Ptr(Times(0, 1, 0)))
noMethod == GRPCCallExpectation("", Nil, okResponse, Nil)
noResponse == GRPCCallExpectation(SvcGet, Nil, Nil, Nil)

\* Expectations posted to the sequential store
SeqExpectations == {anyGet, onceEmp1Get, oncePut, noMethod, noResponse}

\* Calls dispatched to the sequential store
SeqCalls == {Call(SvcGet, envHeader(prod), idMessage(emp1)),
             Call(SvcGet, envHeader(prod), NilMessage)}

\* What time.Now().UnixNano() may return when the last reading was t
ClockReadings(t) == {t, t + 1}

NoCall == Call("", EmptyMap, NilMessage)

----------------------------------------------------------------------------
(* The state after storage.New() and matcher.New(store) *)

\* sync.RWMutex, zero value
Unlocked == [writer |-> 0, readers |-> {}]

InitStore ==
    /\ expectationsStore = EmptyMap
    /\ recordedCalls = <<>>
    /\ matchCounts = EmptyMap
    /\ now = 0
    /\ fatal = FALSE
    /\ mu = Unlocked
    /\ heap = EmptyMap

InitCallers ==
    /\ pc = [c \in Callers |-> "idle"]
    /\ call = [c \in Callers |-> NoCall]
    /\ snap = [c \in Callers |-> <<>>]
    /\ idx = [c \in Callers |-> 0]
    /\ tmp = [c \in Callers |-> 0]
    /\ result = [c \in Callers |-> NoMatch]

InitHistory ==
    /\ ret = [op |-> "New"]
    /\ returned = EmptyMap
    /\ handled = 0
    /\ issued = 0
    /\ exhausted = {}

NoProbe == [fn |-> "none"]

Init ==
    /\ InitStore
    /\ InitCallers
    /\ InitHistory
    /\ probe = NoProbe

----------------------------------------------------------------------------
(* Control plane: POST and DELETE /expectations *)

AddExpectation(exp) ==
    /\ ~fatal
    /\ \/ AddExpectationResult(expectationsStore, exp).err
       \/ Len(MapGet(expectationsStore, exp.FullMethodName, <<>>)) < MaxExpectations
    /\ expectationsStore' = AddExpectationResult(expectationsStore, exp).store
    /\ ret' = [op |-> "AddExpectation", exp |-> exp,
               err |-> AddExpectationResult(expectationsStore, exp).err]
    /\ UNCHANGED <<recordedCalls, matchCounts, now, fatal, callerVars, histVars, probe, memVars>>

\* The bound of a times policy that has one: exact, or max when exact is 0
Bound(times) == IF times.Exact > 0 THEN times.Exact ELSE times.Max

ExhaustedNow ==
    {<<m, Bound(Deref(expectationsStore[m][1].Times))>> :
        m \in {x \in DOMAIN expectationsStore :
                  /\ expectationsStore[x][1].Times # Nil
                  /\ Bound(Deref(expectationsStore[x][1].Times)) > 0
                  /\ MapGet(returned, <<x, 0>>, 0)
                        = Bound(Deref(expectationsStore[x][1].Times))}}

ClearAll ==
    /\ ~fatal
    /\ exhausted' = ExhaustedNow
    /\ expectationsStore' = ClearedExpectations
    /\ recordedCalls' = ClearedCalls
    /\ ret' = [op |-> "ClearAll"]
    /\ returned' = EmptyMap
    /\ issued' = 0
    /\ UNCHANGED <<matchCounts, now, fatal, callerVars, handled, probe, memVars>>

----------------------------------------------------------------------------
(* One inbound call handled without interruption: the dispatch stub records *)
(* the call and asks the matcher for its expectation.                       *)

Bump(hist, res, method) ==
    IF res.found
    THEN MapPut(hist, Key(method, res.idx), MapGet(hist, Key(method, res.idx), 0) + 1)
    ELSE hist

HandleCall(c) ==
    /\ ~fatal
    /\ handled < MaxCalls
    /\ \E t \in ClockReadings(now) :
          /\ now' = t
          /\ recordedCalls' = RecordCallResult(recordedCalls, c, t)
    /\ LET found == FindMatchingExpectation(expectationsStore, matchCounts, c)
       IN /\ matchCounts' = found.counts
          /\ ret' = [op |-> "Call", call |-> c, res |-> found.res]
          /\ returned' = Bump(returned, found.res, c.FullMethodName)
    /\ handled' = handled + 1
    /\ issued' = issued + 1
    /\ UNCHANGED <<expectationsStore, fatal, callerVars, exhausted, probe, memVars>>

NextSeq ==
    \/ \E exp \in SeqExpectations : AddExpectation(exp)
    \/ ClearAll
    \/ \E c \in SeqCalls : HandleCall(c)

SpecSeq == Init /\ [][NextSeq]_vars

----------------------------------------------------------------------------
(* Control plane over HTTP: the handlers of /expectations and /verifications *)

\* Go error values: the nil error, and an error with a text
NilError == [isNil |-> TRUE]
ErrorOf(text) == [isNil |-> FALSE, text |-> text]

\* What the client is sent: the status given to WriteHeader, the JSON document
\* encoded into the body (NoBody when none was), and whether the handler
\* panicked before it returned
NoBody == [none |-> TRUE]
HttpResponse(status, body, panicked) == [status |-> status, body |-> body, panicked |-> panicked]

\* writeErrorResponse: WriteHeader, then the map literal calls err.Error(), which
\* dereferences a nil interface when err is nil
writeErrorResponse(statusCode, message, err) ==
    IF err.isNil
    THEN HttpResponse(statusCode, NoBody, TRUE)
    ELSE HttpResponse(statusCode, [error |-> message, details |-> err.text], FALSE)

writeJSONResponse(statusCode, data) == HttpResponse(statusCode, data, FALSE)

HttpMethods == {"POST", "GET", "DELETE", "PUT", "PATCH"}

\* Request bodies posted to /expectations: JSON the decoder rejects, and
\* encoded expectations
Payloads ==
    {[valid |-> FALSE]} \cup {[valid |-> TRUE, exp |-> e] : e \in SeqExpectations}

HttpRet(path, method, response) ==
    [op |-> "HTTP", path |-> path, method |-> method, response |-> response]

handleExpectations(method, payload) ==
    /\ ~fatal
    /\ IF method = "POST"
       THEN IF ~payload.valid
            THEN /\ ret' = HttpRet("/expectations", method,
                                   writeErrorResponse(400, "Failed to decode expectation",
                                                      ErrorOf("decode")))
                 /\ UNCHANGED <<expectationsStore, recordedCalls, histVars>>
            ELSE /\ \/ AddExpectationResult(expectationsStore, payload.exp).err
                    \/ Len(MapGet(expectationsStore, payload.exp.FullMethodName, <<>>))
                          < MaxExpectations
                 /\ expectationsStore' =
                       AddExpectationResult(expectationsStore, payload.exp).store
                 /\ ret' = HttpRet("/expectations", method,
                        IF AddExpectationResult(expectationsStore, payload.exp).err
                        THEN writeErrorResponse(400, "Invalid expectation", ErrorOf("invalid"))
                        ELSE writeJSONResponse(201, [message |-> "Expectation added"]))
                 /\ UNCHANGED <<recordedCalls, histVars>>
       ELSE IF method = "GET"
       THEN /\ ret' = HttpRet("/expectations", method,
                              writeJSONResponse(200, GetExpectations(expectationsStore)))
            /\ UNCHANGED <<expectationsStore, recordedCalls, histVars>>
       ELSE IF method = "DELETE"
       THEN /\ exhausted' = ExhaustedNow
            /\ expectationsStore' = ClearedExpectations
            /\ recordedCalls' = ClearedCalls
            /\ returned' = EmptyMap
            /\ issued' = 0
            /\ ret' = HttpRet("/expectations", method,
                   writeJSONResponse(200,
                       [message |-> "All expectations and recorded calls cleared"]))
            /\ UNCHANGED handled
       ELSE /\ ret' = HttpRet("/expectations", method,
                              writeErrorResponse(405, "Method not allowed", NilError))
            /\ UNCHANGED <<expectationsStore, recordedCalls, histVars>>
    /\ UNCHANGED <<matchCounts, now, fatal, callerVars, probe, memVars>>

handleVerifications(method) ==
    /\ ~fatal
    /\ ret' = HttpRet("/verifications", method,
                      IF method = "GET"
                      THEN writeJSONResponse(200, GetRecordedCalls(recordedCalls))
                      ELSE writeErrorResponse(405, "Method not allowed", NilError))
    /\ UNCHANGED <<expectationsStore, recordedCalls, matchCounts, now, fatal,
                   callerVars, histVars, probe, memVars>>

NextHttp ==
    \/ \E method \in HttpMethods, payload \in Payloads : handleExpectations(method, payload)
    \/ \E method \in HttpMethods : handleVerifications(method)
    \/ \E c \in SeqCalls : HandleCall(c)

SpecHttp == Init /\ [][NextHttp]_vars

----------------------------------------------------------------------------
(* The times policy evaluated in isolation *)

TimesProbes ==
    {[fn |-> "checkTimes", times |-> t, count |-> n, done |-> FALSE, eligible |-> FALSE] :
        t \in {Nil} \cup {Ptr(Times(a, b, x)) : a, b, x \in 0 .. MaxTimes},
        n \in 0 .. MaxCount}

\* Inputs of the satisfaction report: one expectation at (SvcGet, 0) and its counter
SatisfiedProbes ==
    {[fn |-> "satisfied", times |-> t, count |-> n, done |-> FALSE, satisfied |-> FALSE] :
        t \in {Nil} \cup {Ptr(Times(a, b, x)) : a, b, x \in 0 .. MaxTimes},
        n \in 0 .. MaxCount}

InitTimes ==
    /\ InitStore
    /\ InitCallers
    /\ InitHistory
    /\ probe \in TimesProbes \cup SatisfiedProbes

\* checkTimes for the expectation at (SvcGet, 0) whose counter holds probe.count
EvalCheckTimes ==
    /\ probe.fn = "checkTimes"
    /\ ~probe.done
    /\ probe' = [probe EXCEPT
                   !.done = TRUE,
                   !.eligible = checkTimes(MapPut(EmptyMap, Key(SvcGet, 0), probe.count),
                                           SvcGet, 0,
                                           GRPCCallExpectation(SvcGet, Nil, okResponse,
                                                               probe.times))]
    /\ UNCHANGED <<expectationsStore, recordedCalls, matchCounts, now, fatal,
                   callerVars, ret, histVars, memVars>>

\* The handler of /verifications/satisfied on a store holding the probe's expectation;
\* a counter exists only once its expectation was matched
EvalSatisfied ==
    /\ probe.fn = "satisfied"
    /\ ~probe.done
    /\ LET exp == GRPCCallExpectation(SvcGet, Nil, okResponse, probe.times)
           counts == IF probe.count = 0 THEN EmptyMap
                     ELSE MapPut(EmptyMap, Key(SvcGet, 0), probe.count)
           report == SatisfiedReport(AddExpectationResult(EmptyMap, exp).store, counts)
       IN probe' = [probe EXCEPT !.done = TRUE, !.satisfied = report[Key(SvcGet, 0)]]
    /\ UNCHANGED <<expectationsStore, recordedCalls, matchCounts, now, fatal,
                   callerVars, ret, histVars, memVars>>

NextTimes == EvalCheckTimes \/ EvalSatisfied

SpecTimes == InitTimes /\ [][NextTimes]_vars

----------------------------------------------------------------------------
(* Concurrent callers: one goroutine per inbound call.  Store methods run    *)
(* under Store.mu; Matcher.matchCounts is read and written with no lock, so  *)
(* every access to it is a step of its own.                                  *)

maxOnceGet == GRPCCallExpectation(SvcGet, Nil, okResponse, Ptr(Times(0, 1, 0)))

\* Expectations posted while callers run
ConcExpectations == {maxOnceGet, prodGet}

\* Calls dispatched concurrently
ConcCalls == {Call(SvcGet, envHeader(prod), NilMessage),
              Call(SvcGet, envHeader(staging), NilMessage)}

CurrentExp(c) == snap[c][idx[c] + 1]
CurrentKey(c) == Key(call[c].FullMethodName, idx[c])

\* The dispatch stub receives a call and records it (Store.RecordCall)
Dispatch(c, in, limit) ==
    /\ ~fatal
    /\ pc[c] = "idle"
    /\ handled < limit
    /\ \E t \in ClockReadings(now) :
          /\ now' = t
          /\ recordedCalls' = RecordCallResult(recordedCalls, in, t)
    /\ call' = [call EXCEPT ![c] = in]
    /\ pc' = [pc EXCEPT ![c] = "find"]
    /\ handled' = handled + 1
    /\ issued' = issued + 1
    /\ UNCHANGED <<expectationsStore, matchCounts, fatal, snap, idx, tmp, result, ret,
                   returned, exhausted, probe, memVars>>

\* FindMatchingExpectation, line 152: m.Store.GetExpectations()
Snapshot(c) ==
    /\ ~fatal
    /\ pc[c] = "find"
    /\ snap' = [snap EXCEPT
                  ![c] = MapGet(GetExpectations(expectationsStore),
                                call[c].FullMethodName, <<>>)]
    /\ idx' = [idx EXCEPT ![c] = 0]
    /\ pc' = [pc EXCEPT ![c] = "loop"]
    /\ UNCHANGED <<storeVars, matchCounts, now, fatal, call, tmp, result, ret,
                   histVars, probe, memVars>>

\* A loop iteration whose header or body predicates fail: continue
SkipExpectation(c) ==
    /\ ~fatal
    /\ pc[c] = "loop"
    /\ idx[c] < Len(snap[c])
    /\ ~PredicatesPass(CurrentExp(c), call[c].Headers, actualBodyMap(call[c].Body))
    /\ idx' = [idx EXCEPT ![c] = idx[c] + 1]
    /\ UNCHANGED <<storeVars, matchCounts, now, fatal, pc, call, snap, tmp, result, ret,
                   histVars, probe, memVars>>

\* A loop iteration whose predicates pass: checkTimes reads the counter
CheckTimes(c) ==
    /\ ~fatal
    /\ pc[c] = "loop"
    /\ idx[c] < Len(snap[c])
    /\ PredicatesPass(CurrentExp(c), call[c].Headers, actualBodyMap(call[c].Body))
    /\ IF checkTimes(matchCounts, call[c].FullMethodName, idx[c], CurrentExp(c))
       THEN /\ pc' = [pc EXCEPT ![c] = "incr"]
            /\ idx' = idx
       ELSE /\ pc' = pc
            /\ idx' = [idx EXCEPT ![c] = idx[c] + 1]
    /\ UNCHANGED <<storeVars, matchCounts, now, fatal, call, snap, tmp, result, ret,
                   histVars, probe, memVars>>

\* incrementMatch, m.matchCounts[key]++ : the map slot is assigned and its value loaded
IncrementLoad(c) ==
    /\ ~fatal
    /\ pc[c] = "incr"
    /\ tmp' = [tmp EXCEPT ![c] = MapGet(matchCounts, CurrentKey(c), 0)]
    /\ pc' = [pc EXCEPT ![c] = "store"]
    /\ UNCHANGED <<storeVars, matchCounts, now, fatal, call, snap, idx, result, ret,
                   histVars, probe, memVars>>

\* incrementMatch, m.matchCounts[key]++ : the value plus one is stored; return &exp
IncrementStore(c) ==
    /\ ~fatal
    /\ pc[c] = "store"
    /\ matchCounts' = MapPut(matchCounts, CurrentKey(c), tmp[c] + 1)
    /\ result' = [result EXCEPT ![c] = Matched(idx[c], CurrentExp(c))]
    /\ returned' = Bump(returned, Matched(idx[c], CurrentExp(c)), call[c].FullMethodName)
    /\ pc' = [pc EXCEPT ![c] = "done"]
    /\ UNCHANGED <<storeVars, now, fatal, call, snap, idx, tmp, ret, handled, issued,
                   exhausted, probe, memVars>>

\* The loop ends with no eligible expectation: return nil
ReturnNil(c) ==
    /\ ~fatal
    /\ pc[c] = "loop"
    /\ idx[c] >= Len(snap[c])
    /\ result' = [result EXCEPT ![c] = NoMatch]
    /\ pc' = [pc EXCEPT ![c] = "done"]
    /\ UNCHANGED <<storeVars, matchCounts, now, fatal, call, snap, idx, tmp, ret,
                   histVars, probe, memVars>>

\* A goroutine is about to touch matchCounts
AtMapRead(c) ==
    /\ pc[c] = "loop"
    /\ idx[c] < Len(snap[c])
    /\ PredicatesPass(CurrentExp(c), call[c].Headers, actualBodyMap(call[c].Body))

AtMapWrite(c) == pc[c] = "incr"

\* Two unsynchronised accesses to the matchCounts map overlap, one of them an
\* assignment: the Go runtime may stop the process ("concurrent map writes",
\* "concurrent map read and map write").
ConcurrentMapAccess ==
    /\ ~fatal
    /\ \E c, d \in Callers :
          /\ c # d
          /\ AtMapWrite(c)
          /\ AtMapWrite(d) \/ AtMapRead(d)
    /\ fatal' = TRUE
    /\ UNCHANGED <<storeVars, matchCounts, now, callerVars, ret, histVars, probe, memVars>>

CallerStep(c) ==
    \/ Snapshot(c)
    \/ SkipExpectation(c)
    \/ CheckTimes(c)
    \/ IncrementLoad(c)
    \/ IncrementStore(c)
    \/ ReturnNil(c)

Next ==
    \/ \E exp \in ConcExpectations : AddExpectation(exp)
    \/ ClearAll
    \/ \E c \in Callers, in \in ConcCalls : Dispatch(c, in, MaxCalls)
    \/ \E c \in Callers : CallerStep(c)
    \/ ConcurrentMapAccess

Spec == Init /\ [][Next]_vars

----------------------------------------------------------------------------
(* C callers, one call each, against a single expectation with max = N *)

maxGet(n) == GRPCCallExpectation(SvcGet, Nil, okResponse, Ptr(Times(0, n, 0)))

InitRace ==
    /\ \E n \in 1 .. NumCallers - 1 :
          /\ expectationsStore = AddExpectationResult(EmptyMap, maxGet(n)).store
          /\ ret = [op |-> "AddExpectation", exp |-> maxGet(n), err |-> FALSE]
    /\ recordedCalls = <<>>
    /\ matchCounts = EmptyMap
    /\ now = 0
    /\ fatal = FALSE
    /\ InitCallers
    /\ returned = EmptyMap
    /\ handled = 0
    /\ issued = 0
    /\ exhausted = {}
    /\ probe = NoProbe
    /\ mu = Unlocked
    /\ heap = EmptyMap

NextRace ==
    \/ \E c \in Callers, in \in ConcCalls : Dispatch(c, in, NumCallers)
    \/ \E c \in Callers : Snapshot(c)
    \/ \E c \in Callers : CheckTimes(c)
    \/ \E c \in Callers : IncrementLoad(c)
    \/ \E c \in Callers : IncrementStore(c)
    \/ \E c \in Callers : ReturnNil(c)
    \/ ConcurrentMapAccess

SpecRace == InitRace /\ [][NextRace]_vars

----------------------------------------------------------------------------
(* Calls following one another on the same goroutine slots, against a single *)
(* expectation without times policy                                          *)

InitRepeat ==
    /\ expectationsStore = AddExpectationResult(EmptyMap, anyGet).store
    /\ ret = [op |-> "AddExpectation", exp |-> anyGet, err |-> FALSE]
    /\ recordedCalls = <<>>
    /\ matchCounts = EmptyMap
    /\ now = 0
    /\ fatal = FALSE
    /\ InitCallers
    /\ returned = EmptyMap
    /\ handled = 0
    /\ issued = 0
    /\ exhausted = {}
    /\ probe = NoProbe
    /\ mu = Unlocked
    /\ heap = EmptyMap

\* FindMatchingExpectation has returned to the stub; the slot takes the next call
Finish(c) ==
    /\ ~fatal
    /\ pc[c] = "done"
    /\ pc' = [pc EXCEPT ![c] = "idle"]
    /\ UNCHANGED <<storeVars, matchCounts, now, fatal, call, snap, idx, tmp, result, ret,
                   histVars, probe, memVars>>

NextRepeat ==
    \/ \E c \in Callers : Dispatch(c, Call(SvcGet, envHeader(prod), NilMessage), MaxCalls + 1)
    \/ \E c \in Callers : Snapshot(c)
    \/ \E c \in Callers : CheckTimes(c)
    \/ \E c \in Callers : IncrementLoad(c)
    \/ \E c \in Callers : IncrementStore(c)
    \/ \E c \in Callers : Finish(c)
    \/ ConcurrentMapAccess

SpecRepeat == InitRepeat /\ [][NextRepeat]_vars

----------------------------------------------------------------------------
(* Matcher.FindMatchingExpectation called directly, one call at a time, on   *)
(* expectations with header predicates                                       *)

unclosedClass == <<"[", "p">>

envIsUnclosed == [k \in {"x-env"} |-> HeaderMatcher(Nil, <<>>, unclosedClass)]

badRegexGet == GRPCCallExpectation(SvcGet, Ptr(RequestMatcher(envIsUnclosed, EmptyMap)),
                                   okResponse, Nil)

\* Expectations posted before and between direct calls of the matcher
MatchExpectations == {prodGet, badRegexGet, anyGet, oncePut}

MatchCall(c) ==
    /\ ~fatal
    /\ handled < MaxCalls
    /\ LET found == FindMatchingExpectation(expectationsStore, matchCounts, c)
       IN /\ matchCounts' = found.counts
          /\ ret' = [op |-> "Call", call |-> c, res |-> found.res]
          /\ returned' = Bump(returned, found.res, c.FullMethodName)
    /\ handled' = handled + 1
    /\ UNCHANGED <<storeVars, now, fatal, callerVars, issued, exhausted, probe, memVars>>

NextMatch ==
    \/ \E exp \in MatchExpectations : AddExpectation(exp)
    \/ \E c \in ConcCalls : MatchCall(c)

SpecMatch == Init /\ [][NextMatch]_vars

----------------------------------------------------------------------------
(* Matcher.FindMatchingExpectation called directly on expectations with body *)
(* predicates or with an empty matcher, for calls whose message may fail to  *)
(* marshal                                                                   *)

markerIsTrue ==
    [k \in {ErrorMarker} |-> FieldMatcher(Ptr(StringValue(trueText)), <<>>, Nil, Nil)]

markerGet == GRPCCallExpectation(SvcGet, Ptr(RequestMatcher(EmptyMap, markerIsTrue)),
                                 okResponse, Nil)

emp1Get == GRPCCallExpectation(SvcGet, Ptr(RequestMatcher(EmptyMap, idIsEmp1)),
                               okResponse, Nil)

emptyMatcherGet == GRPCCallExpectation(SvcGet, Ptr(RequestMatcher(EmptyMap, EmptyMap)),
                                       okResponse, Ptr(Times(0, 1, 0)))

\* A range and a contains predicate on the string field "id": values of the wrong
\* type for toFloat64 and for the string assertion on Contains
idWrongTypes ==
    [k \in {"id"} |-> FieldMatcher(Nil, <<>>, Ptr(Float64Value(1)),
                                   Ptr(RangeMatcher(0, MaxValue)))]

wrongTypeGet == GRPCCallExpectation(SvcGet, Ptr(RequestMatcher(EmptyMap, idWrongTypes)),
                                    okResponse, Nil)

BodyExpectations == {markerGet, emp1Get, emptyMatcherGet, maxOnceGet, oncePut,
                     badRegexGet, wrongTypeGet}

BodyCalls == {Call(SvcGet, envHeader(prod), BadMessage),
              Call(SvcGet, envHeader(staging), idMessage(emp1)),
              Call(SvcGet, EmptyMap, NilMessage)}

NextBody ==
    \/ \E exp \in BodyExpectations : AddExpectation(exp)
    \/ \E c \in BodyCalls : MatchCall(c)

SpecBody == Init /\ [][NextBody]_vars

----------------------------------------------------------------------------
(* matchField evaluated in isolation *)

\* A "range" object of a posted expectation decoded into RangeMatcher: min and max
\* are plain float64 fields, so a key that is absent (Nil) leaves the zero value
DecodeRange(json) ==
    RangeMatcher(IF json.min = Nil THEN 0 ELSE Deref(json.min),
                 IF json.max = Nil THEN 0 ELSE Deref(json.max))

\* Go numeric values of some declared types
GoKinds == {"int", "uint32", "float64"}

\* Declared types of numeric protobuf fields
ProtoKinds == {"int32", "int64", "double"}

\* What matchField is handed for a body field: a Go value, or the value that
\* json.Unmarshal yields for a protobuf field written by protojson
ObservedNumbers ==
    {[num |-> n, value |-> NumberValue(k, n)] : n \in 0 .. MaxValue, k \in GoKinds}
    \cup {[num |-> n, value |-> UnmarshalValue(MarshalField([kind |-> k, v |-> n]))] :
             n \in 0 .. MaxValue, k \in ProtoKinds}

EqualsProbes ==
    {[fn |-> "equals",
      matcher |-> FieldMatcher(Ptr(NumberValue(k, e)), <<>>, Nil, Nil),
      value |-> Ptr(o.value),
      numeric |-> TRUE, num |-> o.num, want |-> e, min |-> Nil, max |-> Nil,
      done |-> FALSE, result |-> FALSE] :
        k \in GoKinds, e \in 0 .. MaxValue, o \in ObservedNumbers}

OptionalBounds == {Nil} \cup {Ptr(n) : n \in 0 .. MaxValue}

RangeProbes ==
    {[fn |-> "range",
      matcher |-> FieldMatcher(Nil, <<>>, Nil,
                               Ptr(DecodeRange([min |-> lo, max |-> hi]))),
      value |-> Ptr(Float64Value(n)),
      numeric |-> TRUE, num |-> n, want |-> 0, min |-> lo, max |-> hi,
      done |-> FALSE, result |-> FALSE] :
        lo \in OptionalBounds, hi \in OptionalBounds, n \in -1 .. MaxValue}
    \cup
    {[fn |-> "range",
      matcher |-> FieldMatcher(Nil, <<>>, Nil,
                               Ptr(DecodeRange([min |-> lo, max |-> hi]))),
      value |-> Ptr(StringValue(emp1)),
      numeric |-> FALSE, num |-> 0, want |-> 0, min |-> lo, max |-> hi,
      done |-> FALSE, result |-> FALSE] :
        lo \in OptionalBounds, hi \in OptionalBounds}

\* A posted field predicate decoded into FieldMatcher: Regex is a plain string, so
\* "regex": "" and no "regex" key (Nil) both leave ""
DecodeFieldMatcher(json) ==
    FieldMatcher(json.equals, IF json.regex = Nil THEN <<>> ELSE Deref(json.regex),
                 json.contains, json.range)

\* A posted header predicate decoded into HeaderMatcher
DecodeHeaderMatcher(json) ==
    HeaderMatcher(json.exists, IF json.equals = Nil THEN <<>> ELSE Deref(json.equals),
                  IF json.regex = Nil THEN <<>> ELSE Deref(json.regex))

PostedPatterns == {Nil, Ptr(<<>>), Ptr(anchoredProd)}

\* A posted "regex" on a body field and on a header, against one observed string
RegexProbes ==
    {[fn |-> "regex", posted |-> p,
      matcher |-> DecodeFieldMatcher([equals |-> Nil, regex |-> p,
                                      contains |-> Nil, range |-> Nil]),
      value |-> Ptr(StringValue(o)), observed |-> o,
      done |-> FALSE, result |-> FALSE] :
        p \in PostedPatterns, o \in {<<>>, prod, staging}}
    \cup
    {[fn |-> "headerRegex", posted |-> p,
      expected |-> [k \in {"X-Env"} |->
                      DecodeHeaderMatcher([exists |-> Nil, equals |-> Nil, regex |-> p])],
      actual |-> [k \in {"x-env"} |-> <<o>>], observed |-> o,
      done |-> FALSE, result |-> FALSE] :
        p \in PostedPatterns, o \in {<<>>, prod, staging}}

ContainsValues ==
    {StringValue(t) : t \in {<<>>, <<"p">>, <<"m", "p">>, <<"p", "m">>, emp1}}
    \cup {SliceValue(t) : t \in {<<"a">>, <<"b", "a">>, <<"a", "c">>}}

ContainsProbes ==
    {[fn |-> "contains",
      matcher |-> FieldMatcher(Nil, <<>>, Ptr(e), Nil),
      value |-> Ptr(o),
      done |-> FALSE, result |-> FALSE] :
        e \in ContainsValues, o \in ContainsValues}

HeaderValues == {<<>>, <<prod>>, <<staging>>, <<staging, prod>>}

\* Incoming metadata: keys are lower case, a key that is present has values
Metadata ==
    {[k \in {h \in {"x-env", "x-id"} : Len(v[h]) > 0} |-> v[k]] :
        v \in [{"x-env", "x-id"} -> HeaderValues]}

HeaderProbes ==
    {[fn |-> "headers",
      expected |-> [k \in ks |-> IF k = "X-Env" THEN HeaderMatcher(e, q, r)
                                  ELSE HeaderMatcher(Ptr(TRUE), <<>>, <<>>)],
      actual |-> md,
      done |-> FALSE, result |-> FALSE] :
        ks \in {{"X-Env"}, {"X-Env", "x-id"}},
        e \in {Nil, Ptr(TRUE), Ptr(FALSE)},
        q \in {<<>>, prod},
        r \in {<<>>, anchoredProd, unclosedClass},
        md \in {m \in Metadata : "x-id" \in DOMAIN m => m["x-id"] = <<prod>>}}

\* Predicates on the string field "id" and on the numeric field "n"
IdMatchers ==
    {FieldMatcher(e, r, c, Nil) :
        e \in {Nil, Ptr(StringValue(emp1))},
        r \in {<<>>, <<"^", "e">>},
        c \in {Nil, Ptr(StringValue(<<"p">>))}}

NMatchers ==
    {FieldMatcher(e, <<>>, Nil, g) :
        e \in {Nil, Ptr(Float64Value(1))},
        g \in {Nil, Ptr(RangeMatcher(1, MaxValue))}}

\* Bodies as FindMatchingExpectation hands them to matchBody
Bodies ==
    {Unmarshal(Marshal(m).json) :
        m \in {Message(EmptyMap)}
               \cup {Message([k \in {"id"} |-> [kind |-> "string", v |-> t]]) :
                        t \in {emp1, prod}}
               \cup {Message([k \in {"id", "n"} |->
                                IF k = "id" THEN [kind |-> "string", v |-> emp1]
                                ELSE [kind |-> "int32", v |-> n]]) : n \in 0 .. 1}}

BodyProbes ==
    {[fn |-> "body",
      expected |-> [k \in {"id"} |-> im], actual |-> b,
      done |-> FALSE, result |-> FALSE] : im \in IdMatchers, b \in Bodies}
    \cup
    {[fn |-> "body",
      expected |-> [k \in {"id", "n"} |-> IF k = "id" THEN im ELSE nm], actual |-> b,
      done |-> FALSE, result |-> FALSE] :
        im \in IdMatchers, nm \in NMatchers, b \in Bodies}

InitField ==
    /\ InitStore
    /\ InitCallers
    /\ InitHistory
    /\ probe \in EqualsProbes \cup RangeProbes \cup RegexProbes \cup ContainsProbes
                 \cup HeaderProbes \cup BodyProbes

EvalMatchHeaders ==
    /\ probe.fn \in {"headerRegex", "headers"}
    /\ ~probe.done
    /\ probe' = [probe EXCEPT !.done = TRUE,
                              !.result = matchHeaders(probe.expected, probe.actual)]
    /\ UNCHANGED <<expectationsStore, recordedCalls, matchCounts, now, fatal,
                   callerVars, ret, histVars, memVars>>

EvalMatchBody ==
    /\ probe.fn = "body"
    /\ ~probe.done
    /\ probe' = [probe EXCEPT !.done = TRUE,
                              !.result = matchBody(probe.expected, probe.actual)]
    /\ UNCHANGED <<expectationsStore, recordedCalls, matchCounts, now, fatal,
                   callerVars, ret, histVars, memVars>>

EvalMatchField ==
    /\ probe.fn \in {"equals", "range", "regex", "contains"}
    /\ ~probe.done
    /\ probe' = [probe EXCEPT !.done = TRUE,
                              !.result = matchField(probe.matcher, probe.value)]
    /\ UNCHANGED <<expectationsStore, recordedCalls, matchCounts, now, fatal,
                   callerVars, ret, histVars, memVars>>

NextField == EvalMatchField \/ EvalMatchHeaders \/ EvalMatchBody

SpecField == InitField /\ [][NextField]_vars

----------------------------------------------------------------------------
(* deepCompare evaluated in isolation on decoded JSON documents *)

\* interface{} values: nil, map[string]interface{} and []interface{}, besides
\* the numbers and strings above
NullValue == [kind |-> "nil", v |-> 0, s |-> <<>>]
MapValue(m) == [kind |-> "map", m |-> m]
ListValue(e) == [kind |-> "slice", e |-> e]

isNumber(k) == k \in NumericKinds

\* fmt.Sprintf("%v", x) for a string
FormatV(x) == x.s

\* deepCompare comparing numbers of different Go types as unequal
RECURSIVE deepCompareTyped(_, _, _)
deepCompareTyped(expected, actual, exact) ==
    IF expected.kind = "nil" /\ actual.kind = "nil" THEN TRUE
    ELSE IF expected.kind = "nil" \/ actual.kind = "nil" THEN FALSE
    ELSE IF expected.kind # actual.kind THEN FALSE
    ELSE IF isNumber(expected.kind) THEN expected.v = actual.v
    ELSE IF expected.kind = "map"
         THEN /\ exact => Cardinality(DOMAIN expected.m) = Cardinality(DOMAIN actual.m)
              /\ \A k \in DOMAIN expected.m :
                     IF k \in DOMAIN actual.m
                     THEN deepCompareTyped(expected.m[k], actual.m[k], exact)
                     ELSE FALSE
    ELSE IF expected.kind = "slice"
         THEN /\ exact => Len(expected.e) = Len(actual.e)
              /\ ~exact => Len(expected.e) <= Len(actual.e)
              /\ \A i \in 1 .. Len(expected.e) :
                     IF i <= Len(actual.e)
                     THEN deepCompareTyped(expected.e[i], actual.e[i], TRUE)
                     ELSE FALSE
    ELSE FormatV(expected) = FormatV(actual)

\* deepCompare handing its own mode down to the elements of a slice
RECURSIVE deepCompareSameMode(_, _, _)
deepCompareSameMode(expected, actual, exact) ==
    IF expected.kind = "nil" /\ actual.kind = "nil" THEN TRUE
    ELSE IF expected.kind = "nil" \/ actual.kind = "nil" THEN FALSE
    ELSE IF isNumber(expected.kind) /\ isNumber(actual.kind) THEN expected.v = actual.v
    ELSE IF expected.kind # actual.kind THEN FALSE
    ELSE IF expected.kind = "map"
         THEN /\ exact => Cardinality(DOMAIN expected.m) = Cardinality(DOMAIN actual.m)
              /\ \A k \in DOMAIN expected.m :
                     IF k \in DOMAIN actual.m
                     THEN deepCompareSameMode(expected.m[k], actual.m[k], exact)
                     ELSE FALSE
    ELSE IF expected.kind = "slice"
         THEN /\ exact => Len(expected.e) = Len(actual.e)
              /\ ~exact => Len(expected.e) <= Len(actual.e)
              /\ \A i \in 1 .. Len(expected.e) :
                     IF i <= Len(actual.e)
                     THEN deepCompareSameMode(expected.e[i], actual.e[i], exact)
                     ELSE FALSE
    ELSE FormatV(expected) = FormatV(actual)

\* deepCompare(expected, actual, exact).  Numbers are converted to float64 before
\* they are compared; a map hands its mode down to its values, a slice compares
\* its elements with exact = true.
RECURSIVE deepCompare(_, _, _)
deepCompare(expected, actual, exact) ==
    IF expected.kind = "nil" /\ actual.kind = "nil" THEN TRUE
    ELSE IF expected.kind = "nil" \/ actual.kind = "nil" THEN FALSE
    ELSE IF isNumber(expected.kind) /\ isNumber(actual.kind) THEN expected.v = actual.v
    ELSE IF expected.kind # actual.kind THEN FALSE
    ELSE IF expected.kind = "map"
         THEN /\ exact => Cardinality(DOMAIN expected.m) = Cardinality(DOMAIN actual.m)
              /\ \A k \in DOMAIN expected.m :
                     IF k \in DOMAIN actual.m
                     THEN deepCompare(expected.m[k], actual.m[k], exact)
                     ELSE FALSE
    ELSE IF expected.kind = "slice"
         THEN /\ exact => Len(expected.e) = Len(actual.e)
              /\ ~exact => Len(expected.e) <= Len(actual.e)
              /\ \A i \in 1 .. Len(expected.e) :
                     IF i <= Len(actual.e)
                     THEN deepCompare(expected.e[i], actual.e[i], TRUE)
                     ELSE FALSE
    ELSE FormatV(expected) = FormatV(actual)

DocLeaves ==
    {NumberValue(k, n) : k \in {"float64", "int"}, n \in 1 .. MaxValue}
    \cup {StringValue(<<"a">>), NullValue}

DocMaps ==
    {MapValue([k \in ks |-> f[k]]) :
        ks \in SUBSET {"a", "b"}, f \in [{"a", "b"} -> {Float64Value(1), NumberValue("int", 1)}]}

DocElements ==
    {Float64Value(1), NumberValue("int", 1), Float64Value(2),
     MapValue([k \in {"a"} |-> Float64Value(1)]),
     MapValue([k \in {"a", "b"} |-> Float64Value(1)])}

DocLists ==
    {ListValue(<<>>)} \cup {ListValue(<<x>>) : x \in DocElements}
    \cup {ListValue(<<x, y>>) : x, y \in DocElements}

\* Documents: leaves, maps, lists, and maps holding a map or a list
Documents ==
    DocLeaves \cup DocMaps \cup DocLists
    \cup {MapValue([k \in {"items"} |-> l]) : l \in DocLists}
    \cup {MapValue([k \in {"a"} |-> m]) : m \in DocMaps}

InitDeep ==
    /\ InitStore
    /\ InitCallers
    /\ InitHistory
    /\ probe \in {[fn |-> "deepCompare", expected |-> e, actual |-> a, exact |-> x,
                    done |-> FALSE, result |-> FALSE] :
                      e \in Documents, a \in Documents, x \in BOOLEAN}

EvalDeepCompare ==
    /\ ~probe.done
    /\ probe' = [probe EXCEPT
                    !.done = TRUE,
                    !.result = deepCompare(probe.expected, probe.actual, probe.exact)]
    /\ UNCHANGED <<expectationsStore, recordedCalls, matchCounts, now, fatal,
                   callerVars, ret, histVars, memVars>>

NextDeep == EvalDeepCompare

SpecDeep == InitDeep /\ [][NextDeep]_vars

----------------------------------------------------------------------------
(* protoc-gen-grpcmock: the names generateMockServer gives the mock servers *)

MaxFiles == 2
MaxServices == 2

\* Strings are sequences of characters
MockServerText == <<"M", "o", "c", "k", "S", "e", "r", "v", "e", "r">>

\* protogen.Service and protogen.File, as far as the generator reads them
Service(goName) == [GoName |-> goName]
File(generate, services) == [Generate |-> generate, Services |-> services]

RECURSIVE countServices(_, _, _)
countServices(services, j, counts) ==
    IF j > Len(services) THEN counts
    ELSE countServices(services, j + 1,
             MapPut(counts, services[j].GoName, MapGet(counts, services[j].GoName, 0) + 1))

RECURSIVE countFiles(_, _, _)
countFiles(files, i, counts) ==
    IF i > Len(files) THEN counts
    ELSE IF ~files[i].Generate \/ Len(files[i].Services) = 0
         THEN countFiles(files, i + 1, counts)
         ELSE countFiles(files, i + 1, countServices(files[i].Services, 1, counts))

\* countServiceNames: occurrences of each service Go name across the files to generate
countServiceNames(files) == countFiles(files, 1, EmptyMap)

RECURSIVE collectFiles(_, _, _)
collectFiles(files, i, pending) ==
    IF i > Len(files) THEN pending
    ELSE IF ~files[i].Generate \/ Len(files[i].Services) = 0
         THEN collectFiles(files, i + 1, pending)
         ELSE collectFiles(files, i + 1,
                  pending \o [j \in 1 .. Len(files[i].Services) |->
                                 [file |-> i, service |-> files[i].Services[j]]])

\* collectPendingServices: the services to process, in file order
collectPendingServices(files) == collectFiles(files, 1, <<>>)

\* The struct name without the occurrence number, whatever the count
mockServerStructNameBare(originalGoName, count, currentCount) ==
    originalGoName \o MockServerText

\* The struct name of one service: the occurrence number is appended when the
\* Go name was counted more than once
mockServerStructName(originalGoName, count, currentCount) ==
    IF count > 1
    THEN (originalGoName \o MockServerText) \o Itoa(currentCount)
    ELSE originalGoName \o MockServerText

ServiceData(originalGoName, structName) ==
    [OriginalGoName |-> originalGoName, MockServerStructName |-> structName]

\* Service Go names of the input
GoNames == {<<"A">>, <<"A", "1">>}

ServiceLists ==
    UNION {[1 .. n -> {Service(g) : g \in GoNames}] : n \in 0 .. MaxServices}

Files == {File(g, l) : g \in BOOLEAN, l \in ServiceLists}

InitGen ==
    /\ InitStore
    /\ InitCallers
    /\ InitHistory
    /\ probe \in {[fn |-> "generateMockServer", files |-> fs, phase |-> "start",
                    serviceGoNameCounts |-> EmptyMap, pendingServices |-> <<>>,
                    serviceFinalNameTracker |-> EmptyMap, allServices |-> <<>>,
                    generated |-> FALSE] :
                      fs \in UNION {[1 .. n -> Files] : n \in 1 .. MaxFiles}}

genFrame ==
    UNCHANGED <<expectationsStore, recordedCalls, matchCounts, now, fatal,
                callerVars, ret, histVars, memVars>>

\* generateMockServer up to the loop: count, collect, return when nothing is pending
GenCollect ==
    /\ probe.phase = "start"
    /\ probe' = [probe EXCEPT
                    !.serviceGoNameCounts = countServiceNames(probe.files),
                    !.pendingServices = collectPendingServices(probe.files),
                    !.phase = IF Len(collectPendingServices(probe.files)) = 0
                              THEN "done" ELSE "loop"]
    /\ genFrame

\* One iteration of the loop over pendingServices
GenService ==
    /\ probe.phase = "loop"
    /\ Len(probe.allServices) < Len(probe.pendingServices)
    /\ LET ps == probe.pendingServices[Len(probe.allServices) + 1]
           originalGoName == ps.service.GoName
           currentCount == MapGet(probe.serviceFinalNameTracker, originalGoName, 0) + 1
       IN probe' = [probe EXCEPT
                       !.serviceFinalNameTracker =
                           MapPut(probe.serviceFinalNameTracker, originalGoName, currentCount),
                       !.allServices = Append(probe.allServices,
                           ServiceData(originalGoName,
                               mockServerStructName(originalGoName,
                                   MapGet(probe.serviceGoNameCounts, originalGoName, 0),
                                   currentCount)))]
    /\ genFrame

\* After the loop: the template is executed with allServices
GenExecute ==
    /\ probe.phase = "loop"
    /\ Len(probe.allServices) = Len(probe.pendingServices)
    /\ probe' = [probe EXCEPT !.phase = "done", !.generated = TRUE]
    /\ genFrame

NextGen == GenCollect \/ GenService \/ GenExecute

SpecGen == InitGen /\ [][NextGen]_vars

----------------------------------------------------------------------------
(* Store.mu: ClearAll, GetExpectations and GetRecordedCalls run by goroutines *)
(* one statement at a time; AddExpectation and RecordCall hold the write lock *)
(* for their whole body.                                                       *)

Waiting(c) == pc[c] = "clear.wait"

\* s.mu.Lock() returning whoever holds the mutex
LockUnguarded(m) == TRUE

\* s.mu.Lock() returns: no writer and no reader holds the mutex
LockFree(m) == m.writer = 0 /\ m.readers = {}

\* s.mu.RLock() returning whoever holds or awaits the write lock
RLockUnguarded(m, writerWaits) == TRUE

\* s.mu.RLock() returns: no writer holds the mutex and none is blocked in Lock
RLockFree(m, writerWaits) == m.writer = 0 /\ ~writerWaits

lockFrame == <<matchCounts, now, fatal, call, idx, tmp, result, returned, handled,
               issued, exhausted, probe, heap>>

\* ClearAll is called; line 66, s.mu.Lock(), may block
ClearCall(c) ==
    /\ pc[c] = "idle"
    /\ pc' = [pc EXCEPT ![c] = "clear.wait"]
    /\ UNCHANGED <<storeVars, snap, ret, mu, lockFrame>>

ClearLock(c) ==
    /\ pc[c] = "clear.wait"
    /\ LockFree(mu)
    /\ mu' = [mu EXCEPT !.writer = c]
    /\ pc' = [pc EXCEPT ![c] = "clear.locked"]
    /\ UNCHANGED <<storeVars, snap, ret, lockFrame>>

\* line 68
ClearExpectationsAssign(c) ==
    /\ pc[c] = "clear.locked"
    /\ expectationsStore' = ClearedExpectations
    /\ pc' = [pc EXCEPT ![c] = "clear.half"]
    /\ UNCHANGED <<recordedCalls, snap, ret, mu, lockFrame>>

\* line 69
ClearCallsAssign(c) ==
    /\ pc[c] = "clear.half"
    /\ recordedCalls' = ClearedCalls
    /\ pc' = [pc EXCEPT ![c] = "clear.unlock"]
    /\ UNCHANGED <<expectationsStore, snap, ret, mu, lockFrame>>

\* deferred s.mu.Unlock()
ClearUnlock(c) ==
    /\ pc[c] = "clear.unlock"
    /\ mu' = [mu EXCEPT !.writer = 0]
    /\ pc' = [pc EXCEPT ![c] = "idle"]
    /\ ret' = [op |-> "ClearAll"]
    /\ UNCHANGED <<storeVars, snap, lockFrame>>

ReadOps == {"getexp", "getcalls"}

\* GetExpectations or GetRecordedCalls is called; s.mu.RLock() may block
ReadCall(c, op) ==
    /\ pc[c] = "idle"
    /\ pc' = [pc EXCEPT ![c] = op \o ".wait"]
    /\ UNCHANGED <<storeVars, snap, ret, mu, lockFrame>>

ReadRLock(c, op) ==
    /\ pc[c] = op \o ".wait"
    /\ RLockFree(mu, \E d \in Callers : Waiting(d))
    /\ mu' = [mu EXCEPT !.readers = mu.readers \cup {c}]
    /\ pc' = [pc EXCEPT ![c] = op \o ".locked"]
    /\ UNCHANGED <<storeVars, snap, ret, lockFrame>>

\* The copy made under the read lock
ReadCopy(c, op) ==
    /\ pc[c] = op \o ".locked"
    /\ snap' = [snap EXCEPT
                  ![c] = IF op = "getexp"
                         THEN [op |-> op, expectations |-> GetExpectations(expectationsStore),
                               calls |-> <<>>]
                         ELSE [op |-> op, expectations |-> EmptyMap,
                               calls |-> GetRecordedCalls(recordedCalls)]]
    /\ pc' = [pc EXCEPT ![c] = op \o ".unlock"]
    /\ UNCHANGED <<storeVars, ret, mu, lockFrame>>

\* deferred s.mu.RUnlock(); the copy is returned
ReadRUnlock(c, op) ==
    /\ pc[c] = op \o ".unlock"
    /\ mu' = [mu EXCEPT !.readers = mu.readers \ {c}]
    /\ pc' = [pc EXCEPT ![c] = "idle"]
    /\ ret' = [op |-> op, value |-> snap[c]]
    /\ snap' = [snap EXCEPT ![c] = <<>>]
    /\ UNCHANGED <<storeVars, lockFrame>>

\* Calls recorded while goroutines clear and read
LockCalls == {Call(SvcGet, envHeader(prod), NilMessage)}

LockedAddExpectation(exp) ==
    /\ LockFree(mu)
    /\ AddExpectation(exp)

LockedRecordCall(in) ==
    /\ LockFree(mu)
    /\ handled < MaxCalls
    /\ \E t \in ClockReadings(now) :
          /\ now' = t
          /\ recordedCalls' = RecordCallResult(recordedCalls, in, t)
    /\ handled' = handled + 1
    /\ issued' = issued + 1
    /\ ret' = [op |-> "RecordCall", call |-> in]
    /\ UNCHANGED <<expectationsStore, matchCounts, fatal, callerVars, returned,
                   exhausted, probe, memVars>>

NextLock ==
    \/ \E exp \in {anyGet, maxOnceGet} : LockedAddExpectation(exp)
    \/ \E in \in LockCalls : LockedRecordCall(in)
    \/ \E c \in Callers : ClearCall(c)
    \/ \E c \in Callers : ClearLock(c)
    \/ \E c \in Callers : ClearExpectationsAssign(c)
    \/ \E c \in Callers : ClearCallsAssign(c)
    \/ \E c \in Callers : ClearUnlock(c)
    \/ \E c \in Callers, op \in ReadOps : ReadCall(c, op)
    \/ \E c \in Callers, op \in ReadOps : ReadRLock(c, op)
    \/ \E c \in Callers, op \in ReadOps : ReadCopy(c, op)
    \/ \E c \in Callers, op \in ReadOps : ReadRUnlock(c, op)

SpecLock == Init /\ [][NextLock]_vars

----------------------------------------------------------------------------
(* Store.mu and the writers: AddExpectation and RecordCall run by goroutines, *)
(* one call each, the read of a collection and the assignment of the appended *)
(* slice being two steps.  tmp[c] is the argument, snap[c] the slice read.    *)

writeFrame == <<matchCounts, fatal, call, idx, result, ret, histVars, probe, heap>>

\* AddExpectation(arg) or RecordCall(arg) is called; line 39 or 76, s.mu.Lock(),
\* may block
WriteCall(c, op, arg) ==
    /\ pc[c] = "idle"
    /\ tmp' = [tmp EXCEPT ![c] = arg]
    /\ pc' = [pc EXCEPT ![c] = op \o ".wait"]
    /\ UNCHANGED <<storeVars, now, snap, mu, writeFrame>>

WriteLock(c, op) ==
    /\ pc[c] = op \o ".wait"
    /\ LockFree(mu)
    /\ mu' = [mu EXCEPT !.writer = c]
    /\ pc' = [pc EXCEPT ![c] = op \o ".locked"]
    /\ UNCHANGED <<storeVars, now, snap, tmp, writeFrame>>

\* AddExpectation, lines 41-47: the argument is validated and the list of its
\* method is read
AddLoad(c) ==
    /\ pc[c] = "add.locked"
    /\ IF AddExpectationResult(expectationsStore, tmp[c]).err
       THEN /\ pc' = [pc EXCEPT ![c] = "reject.unlock"]
            /\ snap' = snap
       ELSE /\ pc' = [pc EXCEPT ![c] = "add.loaded"]
            /\ snap' = [snap EXCEPT
                          ![c] = MapGet(expectationsStore, tmp[c].FullMethodName, <<>>)]
    /\ UNCHANGED <<storeVars, now, tmp, mu, writeFrame>>

\* AddExpectation, line 47: the appended list is assigned to the map entry
AddStore(c) ==
    /\ pc[c] = "add.loaded"
    /\ LET m == tmp[c].FullMethodName
           read == MapPut(EmptyMap, m, snap[c])
       IN expectationsStore' =
              MapPut(expectationsStore, m, AddExpectationResult(read, tmp[c]).store[m])
    /\ pc' = [pc EXCEPT ![c] = "add.unlock"]
    /\ UNCHANGED <<recordedCalls, now, snap, tmp, mu, writeFrame>>

\* RecordCall, line 94: s.recordedCalls is read
RecordLoad(c) ==
    /\ pc[c] = "record.locked"
    /\ snap' = [snap EXCEPT ![c] = recordedCalls]
    /\ pc' = [pc EXCEPT ![c] = "record.loaded"]
    /\ UNCHANGED <<storeVars, now, tmp, mu, writeFrame>>

\* RecordCall, lines 94-99: the appended slice is assigned to s.recordedCalls
RecordStore(c) ==
    /\ pc[c] = "record.loaded"
    /\ \E t \in ClockReadings(now) :
          /\ now' = t
          /\ recordedCalls' = RecordCallResult(snap[c], tmp[c], t)
    /\ pc' = [pc EXCEPT ![c] = "record.unlock"]
    /\ UNCHANGED <<expectationsStore, snap, tmp, mu, writeFrame>>

\* deferred s.mu.Unlock(); the method returns
WriteUnlock(c, op) ==
    /\ pc[c] = op \o ".unlock"
    /\ mu' = [mu EXCEPT !.writer = 0]
    /\ pc' = [pc EXCEPT ![c] = op \o ".done"]
    /\ UNCHANGED <<storeVars, now, snap, tmp, writeFrame>>

WriteOps == {"add", "record", "reject"}

NextWrite ==
    \/ \E c \in Callers, exp \in {anyGet, maxOnceGet, noResponse} : WriteCall(c, "add", exp)
    \/ \E c \in Callers, in \in LockCalls : WriteCall(c, "record", in)
    \/ \E c \in Callers, op \in {"add", "record"} : WriteLock(c, op)
    \/ \E c \in Callers : AddLoad(c)
    \/ \E c \in Callers : AddStore(c)
    \/ \E c \in Callers : RecordLoad(c)
    \/ \E c \in Callers : RecordStore(c)
    \/ \E c \in Callers, op \in WriteOps : WriteUnlock(c, op)

SpecWrite == Init /\ [][NextWrite]_vars

----------------------------------------------------------------------------
(* Snapshots and pointers.  GRPCCallExpectation holds *MockResponse and       *)
(* *ExpectationTimes; here a pointer is Ptr([addr |-> a]) and heap[a] is the   *)
(* object it points to, so that two copies of a struct share their pointees.   *)

Ref(a) == Ptr([addr |-> a])
At(h, p) == h[Deref(p).addr]

\* The expectation with every pointer replaced by the object it points to
Resolve(exp, h) ==
    [exp EXCEPT !.Response = IF exp.Response = Nil THEN Nil ELSE Ptr(At(h, exp.Response)),
                !.Times = IF exp.Times = Nil THEN Nil ELSE Ptr(At(h, exp.Times))]

ResolveAll(m, h) ==
    [k \in DOMAIN m |-> [i \in 1 .. Len(m[k]) |-> Resolve(m[k][i], h)]]

\* Expectations posted to the store whose snapshots are taken
AliasExpectations == {maxOnceGet, oncePut}

aliasFrame == <<recordedCalls, matchCounts, now, fatal, pc, call, idx, tmp, result,
                histVars, probe, mu>>

\* POST /expectations: the body is decoded into a new expectation, whose response
\* and times are new objects, and handed to Store.AddExpectation
PostExpectation(tmpl) ==
    /\ Cardinality(DOMAIN heap) < 2 * MaxExpectations
    /\ LET a == Cardinality(DOMAIN heap) + 1
           exp == [tmpl EXCEPT !.Response = Ref(a), !.Times = Ref(a + 1)]
       IN /\ heap' = MapPut(MapPut(heap, a, Deref(tmpl.Response)), a + 1, Deref(tmpl.Times))
          /\ expectationsStore' = AddExpectationResult(expectationsStore, exp).store
          /\ ret' = [op |-> "AddExpectation", exp |-> exp,
                     err |-> AddExpectationResult(expectationsStore, exp).err]
    /\ UNCHANGED <<snap, aliasFrame>>

\* Store.ClearAll
ClearStore ==
    /\ expectationsStore' = ClearedExpectations
    /\ recordedCalls' = ClearedCalls
    /\ ret' = [op |-> "ClearAll"]
    /\ UNCHANGED <<matchCounts, now, fatal, callerVars, histVars, probe, memVars>>

\* A caller keeps the map returned by Store.GetExpectations
TakeSnapshot(c) ==
    /\ snap' = [snap EXCEPT ![c] = GetExpectations(expectationsStore)]
    /\ ret' = [op |-> "GetExpectations", by |-> c]
    /\ UNCHANGED <<expectationsStore, heap, aliasFrame>>

\* The caller removes a key of the returned map: delete(snapshot, k)
SnapshotDeleteKey(c, k) ==
    /\ k \in DOMAIN snap[c]
    /\ snap' = [snap EXCEPT ![c] = [x \in DOMAIN snap[c] \ {k} |-> snap[c][x]]]
    /\ ret' = [op |-> "MutateSnapshot", by |-> c]
    /\ UNCHANGED <<expectationsStore, heap, aliasFrame>>

\* The caller overwrites an element of a returned list: snapshot[k][0] = exp
SnapshotSetElement(c, k) ==
    /\ k \in DOMAIN snap[c]
    /\ snap' = [snap EXCEPT ![c][k][1] = [@ EXCEPT !.Response = Nil, !.Times = Nil]]
    /\ ret' = [op |-> "MutateSnapshot", by |-> c]
    /\ UNCHANGED <<expectationsStore, heap, aliasFrame>>

\* The caller writes through a pointer of a returned expectation:
\* snapshot[k][0].Times.Max = n
SnapshotSetTimesMax(c, k, n) ==
    /\ k \in DOMAIN snap[c]
    /\ snap[c][k][1].Times # Nil
    /\ heap' = [heap EXCEPT ![Deref(snap[c][k][1].Times).addr].Max = n]
    /\ ret' = [op |-> "MutateSnapshot", by |-> c]
    /\ UNCHANGED <<expectationsStore, snap, aliasFrame>>

\* snapshot[k][0].Response.Body = body
SnapshotSetResponseBody(c, k, body) ==
    /\ k \in DOMAIN snap[c]
    /\ snap[c][k][1].Response # Nil
    /\ heap' = [heap EXCEPT ![Deref(snap[c][k][1].Response).addr].Body = body]
    /\ ret' = [op |-> "MutateSnapshot", by |-> c]
    /\ UNCHANGED <<expectationsStore, snap, aliasFrame>>

NextAlias ==
    \/ \E tmpl \in AliasExpectations : PostExpectation(tmpl)
    \/ ClearStore
    \/ \E c \in Callers : TakeSnapshot(c)
    \/ \E c \in Callers, k \in {SvcGet, SvcPut} : SnapshotDeleteKey(c, k)
    \/ \E c \in Callers, k \in {SvcGet, SvcPut} : SnapshotSetElement(c, k)
    \/ \E c \in Callers, k \in {SvcGet, SvcPut}, n \in 1 .. MaxTimes :
          SnapshotSetTimesMax(c, k, n)
    \/ \E c \in Callers, k \in {SvcGet, SvcPut}, body \in {"{}", "{\"id\":\"x\"}"} :
          SnapshotSetResponseBody(c, k, body)

SpecAlias == Init /\ [][NextAlias]_vars

----------------------------------------------------------------------------
(* Recorded calls and references.  RecordedGRPCCall holds a map (Headers) and a *)
(* byte slice (Body); here both are Ref(a), heap[a] being the map or the bytes, *)
(* so that a struct and its copies share them.                                  *)

\* The recorded calls with every reference replaced by what it points to
ResolveCalls(calls, h) ==
    [i \in 1 .. Len(calls) |->
        [calls[i] EXCEPT !.Headers = At(h, @), !.Body = At(h, @)]]

recordFrame == <<expectationsStore, matchCounts, fatal, pc, idx, tmp, result,
                 histVars, probe, mu>>

\* A caller builds a header map and hands it to Store.RecordCall, which stores
\* that map in the new record together with freshly marshalled body bytes
RecordByRef(c, in) ==
    /\ Cardinality(DOMAIN heap) < 2 * MaxCalls
    /\ \E t \in ClockReadings(now) :
          LET a == Cardinality(DOMAIN heap) + 1
              rec == RecordCallResult(<<>>, in, t)[1]
          IN /\ now' = t
             /\ heap' = MapPut(MapPut(heap, a, rec.Headers), a + 1, rec.Body)
             /\ recordedCalls' =
                    Append(recordedCalls, [rec EXCEPT !.Headers = Ref(a), !.Body = Ref(a + 1)])
             /\ call' = [call EXCEPT ![c] = [in EXCEPT !.Headers = Ref(a)]]
    /\ ret' = [op |-> "RecordCall", by |-> c]
    /\ UNCHANGED <<snap, recordFrame>>

\* The caller goes on using the map it passed in: headers["x-env"] = []string{v}
CallerSetHeader(c, v) ==
    /\ call[c] # NoCall
    /\ heap' = [heap EXCEPT ![Deref(call[c].Headers).addr] = MapPut(@, "x-env", <<v>>)]
    /\ ret' = [op |-> "MutateHeaders", by |-> c]
    /\ UNCHANGED <<recordedCalls, now, call, snap, recordFrame>>

\* A caller keeps the slice returned by Store.GetRecordedCalls
TakeCalls(c) ==
    /\ snap' = [snap EXCEPT ![c] = GetRecordedCalls(recordedCalls)]
    /\ ret' = [op |-> "GetRecordedCalls", by |-> c]
    /\ UNCHANGED <<recordedCalls, now, call, heap, recordFrame>>

\* snapshot[0].FullMethodName = method
SnapshotSetMethod(c, method) ==
    /\ Len(snap[c]) > 0
    /\ snap' = [snap EXCEPT ![c][1].FullMethodName = method]
    /\ ret' = [op |-> "MutateSnapshot", by |-> c]
    /\ UNCHANGED <<recordedCalls, now, call, heap, recordFrame>>

\* snapshot[0].Headers["x-env"] = []string{v}
SnapshotSetHeader(c, v) ==
    /\ Len(snap[c]) > 0
    /\ heap' = [heap EXCEPT ![Deref(snap[c][1].Headers).addr] = MapPut(@, "x-env", <<v>>)]
    /\ ret' = [op |-> "MutateSnapshot", by |-> c]
    /\ UNCHANGED <<recordedCalls, now, call, snap, recordFrame>>

\* copy(snapshot[0].Body, bytes)
SnapshotSetBody(c, bytes) ==
    /\ Len(snap[c]) > 0
    /\ heap' = [heap EXCEPT ![Deref(snap[c][1].Body).addr] = bytes]
    /\ ret' = [op |-> "MutateSnapshot", by |-> c]
    /\ UNCHANGED <<recordedCalls, now, call, snap, recordFrame>>

NextRecord ==
    \/ \E c \in Callers : RecordByRef(c, Call(SvcGet, envHeader(prod), idMessage(emp1)))
    \/ \E c \in Callers : CallerSetHeader(c, staging)
    \/ \E c \in Callers : TakeCalls(c)
    \/ \E c \in Callers : SnapshotSetMethod(c, SvcPut)
    \/ \E c \in Callers : SnapshotSetHeader(c, staging)
    \/ \E c \in Callers : SnapshotSetBody(c, Marshal(idMessage(prod)).json)
    \/ ClearStore

SpecRecord == Init /\ [][NextRecord]_vars

----------------------------------------------------------------------------
(* Match counters and references.  Matcher.matchCounts is a Go map, that is a *)
(* reference to a table; here matchCounts is Ref(a) and heap[a] is the table, *)
(* so that whoever is handed the map shares the table with the matcher.       *)

\* matcher.New over a store that holds one expectation without times policy
InitCounts ==
    /\ expectationsStore = AddExpectationResult(EmptyMap, anyGet).store
    /\ ret = [op |-> "AddExpectation", exp |-> anyGet, err |-> FALSE]
    /\ recordedCalls = <<>>
    /\ matchCounts = Ref(1)
    /\ heap = MapPut(EmptyMap, 1, EmptyMap)
    /\ now = 0
    /\ fatal = FALSE
    /\ InitCallers
    /\ returned = EmptyMap
    /\ handled = 0
    /\ issued = 0
    /\ exhausted = {}
    /\ probe = NoProbe
    /\ mu = Unlocked

countsFrame == <<expectationsStore, recordedCalls, matchCounts, now, fatal, pc, call,
                 idx, tmp, result, issued, exhausted, probe, mu>>

\* Matcher.FindMatchingExpectation run without interruption on the shared table
MatchCallByRef(c) ==
    /\ handled < MaxCalls
    /\ LET found == FindMatchingExpectation(expectationsStore, At(heap, matchCounts), c)
       IN /\ heap' = [heap EXCEPT ![Deref(matchCounts).addr] = found.counts]
          /\ ret' = [op |-> "Call", call |-> c, res |-> found.res]
          /\ returned' = Bump(returned, found.res, c.FullMethodName)
    /\ handled' = handled + 1
    /\ UNCHANGED <<snap, countsFrame>>

\* A caller keeps the map returned by Matcher.GetMatchCounts
TakeCounts(c) ==
    /\ snap' = [snap EXCEPT ![c] = GetMatchCounts(matchCounts)]
    /\ ret' = [op |-> "GetMatchCounts", by |-> c]
    /\ UNCHANGED <<heap, returned, handled, countsFrame>>

\* The caller writes to the returned map: counts[key] = n
SnapshotSetCount(c, key, n) ==
    /\ snap[c] # Nil
    /\ heap' = [heap EXCEPT ![Deref(snap[c]).addr] = MapPut(@, key, n)]
    /\ ret' = [op |-> "MutateSnapshot", by |-> c]
    /\ UNCHANGED <<snap, returned, handled, countsFrame>>

NextCounts ==
    \/ \E c \in ConcCalls : MatchCallByRef(c)
    \/ \E c \in Callers : TakeCounts(c)
    \/ \E c \in Callers, n \in 0 .. MaxCount : SnapshotSetCount(c, Key(SvcGet, 0), n)

SpecCounts == InitCounts /\ [][NextCounts]_vars

----------------------------------------------------------------------------
(* Properties *)

\* The expectations stored for the method of call c, and what the call offers
ExpsFor(c) == MapGet(expectationsStore, c.FullMethodName, <<>>)
Passes(exp, c) == PredicatesPass(exp, c.Headers, actualBodyMap(c.Body))
Takes(c, i) ==
    /\ Passes(ExpsFor(c)[i + 1], c)
    /\ checkTimes(matchCounts, c.FullMethodName, i, ExpsFor(c)[i + 1])
Takers(c) == {i \in 0 .. Len(ExpsFor(c)) - 1 : Takes(c, i)}
ReturnedCount(method, i) == MapGet(returned, Key(method, i), 0)
InCheckToIncrement(c) == pc[c] \in {"incr", "store"}

\* C1: an expectation whose times policy has exact = N or max = N (N > 0) is
\* returned to at most N calls, whatever the interleaving of the callers.
C1_AtMostN ==
    \A m \in DOMAIN expectationsStore :
        \A i \in 1 .. Len(expectationsStore[m]) :
            LET times == expectationsStore[m][i].Times
            IN times # Nil =>
                  /\ Deref(times).Exact > 0 => ReturnedCount(m, i - 1) <= Deref(times).Exact
                  /\ Deref(times).Max > 0 => ReturnedCount(m, i - 1) <= Deref(times).Max

\* C2: with one stored expectation with max = N and C > N concurrent callers whose
\* calls satisfy it, once all have returned exactly N were matched and C - N were not.
C2_ExactlyN ==
    (\A c \in Callers : pc[c] = "done") =>
        LET n == Deref(expectationsStore[SvcGet][1].Times).Max
        IN /\ Cardinality({c \in Callers : result[c].found}) = n
           /\ Cardinality({c \in Callers : ~result[c].found}) = NumCallers - n

\* C3: between a caller's eligibility check of a counter and that caller's
\* increment of it, no other caller checks or increments the same counter.
C3_AtomicCheckIncrement ==
    [][\A c, d \in Callers :
          (/\ c # d
           /\ InCheckToIncrement(c)
           /\ CurrentKey(d) = CurrentKey(c)
           /\ \/ InCheckToIncrement(d)
              \/ /\ pc[d] = "loop"
                 /\ idx[d] < Len(snap[d])
                 /\ Passes(CurrentExp(d), call[d]))
          => (pc'[d] = pc[d] /\ idx'[d] = idx[d])]_vars

\* C4: a call is given the expectation of smallest insertion index among those of
\* its method whose predicates pass and whose times policy is still eligible,
\* and no expectation when there is none.
C4_FirstEligibleWins ==
    [][ret'.op = "Call" =>
          LET c == ret'.call
          IN IF Takers(c) = {}
             THEN ret'.res = NoMatch
             ELSE ret'.res = Matched(Min(Takers(c)), ExpsFor(c)[Min(Takers(c)) + 1])]_vars

\* C4 witness: index 0 was returned while a later expectation also accepts the call
C4_Witness ==
    /\ ret.op = "Call"
    /\ ret.res.found
    /\ ret.res.idx = 0
    /\ Len(ExpsFor(ret.call)) = 2
    /\ Takes(ret.call, 1)

\* C5: an expectation with exact = N is given exactly the first N calls that reach
\* it with passing predicates; every later such call falls through to the next
\* eligible expectation, or is unmatched when there is none.
C5_ExactlyFirstN ==
    [][ret'.op = "Call" =>
          LET c == ret'.call
          IN \A j \in 0 .. Len(ExpsFor(c)) - 1 :
                LET exp == ExpsFor(c)[j + 1]
                    later == {k \in Takers(c) : k > j}
                IN (/\ exp.Times # Nil
                    /\ Deref(exp.Times).Exact > 0
                    /\ Passes(exp, c)
                    /\ \A i \in 0 .. j - 1 : ~Takes(c, i))
                   => IF ReturnedCount(c.FullMethodName, j) < Deref(exp.Times).Exact
                      THEN ret'.res = Matched(j, exp)
                      ELSE IF later = {}
                           THEN ret'.res = NoMatch
                           ELSE ret'.res = Matched(Min(later), ExpsFor(c)[Min(later) + 1])]_vars

\* C6: right after ClearAll the expectations listing, the recorded-calls listing
\* and the match-counts listing are all empty.
C6_ClearEmptiesAll ==
    ret.op = "ClearAll" =>
        /\ DOMAIN GetExpectations(expectationsStore) = {}
        /\ GetRecordedCalls(recordedCalls) = <<>>
        /\ DOMAIN GetMatchCounts(matchCounts) = {}

\* C7: when the expectation at (method, 0) had a bound N (exact or max) and N
\* matches at the time of ClearAll, a new expectation added for that method
\* with the same bound is given the next N calls that satisfy it.
C7_CountersClearedWithExpectations ==
    [][ret'.op = "Call" =>
          LET c == ret'.call
              m == c.FullMethodName
          IN (/\ ExpsFor(c) # <<>>
              /\ ExpsFor(c)[1].Times # Nil
              /\ \/ Deref(ExpsFor(c)[1].Times).Exact = 0
                 \/ Deref(ExpsFor(c)[1].Times).Max = 0
              /\ <<m, Bound(Deref(ExpsFor(c)[1].Times))>> \in exhausted
              /\ Passes(ExpsFor(c)[1], c)
              /\ ReturnedCount(m, 0) < Bound(Deref(ExpsFor(c)[1].Times)))
             => ret'.res = Matched(0, ExpsFor(c)[1])]_vars

C9_AddValidatesThenAppends ==
    [][ret'.op = "AddExpectation" =>
          LET exp == ret'.exp
              m == exp.FullMethodName
          IN /\ ret'.err <=> (m = "" \/ exp.Response = Nil)
             /\ ret'.err => UNCHANGED <<expectationsStore, recordedCalls, matchCounts>>
             /\ ~ret'.err =>
                   /\ DOMAIN expectationsStore' = DOMAIN expectationsStore \cup {m}
                   /\ expectationsStore'[m] = Append(ExpsFor(exp), exp)
                   /\ \A k \in DOMAIN expectationsStore \ {m} :
                         expectationsStore'[k] = expectationsStore[k]
                   /\ UNCHANGED <<recordedCalls, matchCounts>>]_vars

\* C9 witness: an add was refused on a store that holds expectations, calls and counters
C9_Witness ==
    /\ ret.op = "AddExpectation"
    /\ ret.err
    /\ ret.exp.Response = Nil
    /\ DOMAIN expectationsStore # {}
    /\ recordedCalls # <<>>
    /\ DOMAIN matchCounts # {}

\* C10: with exact > 0 an expectation is eligible iff its count is below exact,
\* whatever min and max are.
C10_ExactOverridesMinMax ==
    (probe.fn = "checkTimes" /\ probe.done /\ probe.times # Nil
        /\ Deref(probe.times).Exact > 0)
    => (probe.eligible <=> probe.count < Deref(probe.times).Exact)

\* C11: with exact = 0 and max > 0 an expectation is eligible iff its count is
\* below max; with exact = 0 and max = 0 it is eligible at every count; min
\* plays no part.
C11_MaxBoundsMinIgnored ==
    (probe.fn = "checkTimes" /\ probe.done /\ probe.times # Nil
        /\ Deref(probe.times).Exact = 0)
    => (probe.eligible <=> (\/ Deref(probe.times).Max = 0
                            \/ probe.count < Deref(probe.times).Max))

\* C11 witness: checkTimes accepted a count below max that is also below min
C11_Witness ==
    /\ probe.fn = "checkTimes"
    /\ probe.done
    /\ probe.times # Nil
    /\ Deref(probe.times).Exact = 0
    /\ Deref(probe.times).Max = 2
    /\ Deref(probe.times).Min = 2
    /\ probe.count = 1
    /\ probe.eligible

\* C13: once every caller has returned, the counter of each (method, index)
\* equals the number of calls that were given that expectation.
C13_CountersEqualReturns ==
    (\A c \in Callers : pc[c] = "done") =>
        \A i \in 0 .. MaxExpectations :
            MapGet(matchCounts, Key(SvcGet, i), 0) = ReturnedCount(SvcGet, i)

\* C12: an expectation with no times policy is eligible at every count: a call
\* that satisfies its predicates, and that no earlier expectation takes, is
\* given it however many calls it was given before.
C12_NoPolicyAlwaysEligible ==
    [][ret'.op = "Call" =>
          LET c == ret'.call
          IN \A j \in 0 .. Len(ExpsFor(c)) - 1 :
                (/\ ExpsFor(c)[j + 1].Times = Nil
                 /\ Passes(ExpsFor(c)[j + 1], c)
                 /\ \A i \in 0 .. j - 1 : ~Takes(c, i))
                => ret'.res = Matched(j, ExpsFor(c)[j + 1])]_vars

\* C12 witness: an expectation without policy was given its second successive call
C12_Witness ==
    /\ ret.op = "Call"
    /\ ret.res.found
    /\ Deref(ret.res.exp).Times = Nil
    /\ MapGet(matchCounts, Key(ret.call.FullMethodName, ret.res.idx), 0) = 2
    /\ ReturnedCount(ret.call.FullMethodName, ret.res.idx) = 2

\* C16: when the first expectation of the method fails its header or body
\* predicates for the call, the second is evaluated: if it has no matcher and is
\* eligible, the call is given the second.
C16_FailedPredicatesFallThrough ==
    [][ret'.op = "Call" =>
          LET c == ret'.call
              exps == ExpsFor(c)
          IN IF Len(exps) < 2 THEN TRUE
             ELSE (/\ ~Passes(exps[1], c)
                   /\ exps[2].RequestMatcher = Nil
                   /\ checkTimes(matchCounts, c.FullMethodName, 1, exps[2]))
                  => ret'.res = Matched(1, exps[2])]_vars

\* C16 witness: x-env: staging against <<header ^prod$, no matcher>> was given the second
C16_Witness ==
    /\ ret.op = "Call"
    /\ ret.call.Headers = envHeader(staging)
    /\ ExpsFor(ret.call) = <<prodGet, anyGet>>
    /\ ret.res = Matched(1, anyGet)

\* C17: a call is only ever given an expectation stored under its own method
\* name, and is unmatched when no expectation is stored under that name.
C17_OwnMethodOnly ==
    [][ret'.op = "Call" =>
          LET c == ret'.call
          IN /\ ret'.res.found => Deref(ret'.res.exp).FullMethodName = c.FullMethodName
             /\ c.FullMethodName \notin DOMAIN expectationsStore => ret'.res = NoMatch]_vars

\* C17 witness: a call was unmatched while an eligible expectation of another
\* method accepts its headers and body
C17_Witness ==
    /\ ret.op = "Call"
    /\ ~ret.res.found
    /\ ret.call.FullMethodName \notin DOMAIN expectationsStore
    /\ SvcPut \in DOMAIN expectationsStore
    /\ Passes(expectationsStore[SvcPut][1], ret.call)
    /\ checkTimes(matchCounts, SvcPut, 0, expectationsStore[SvcPut][1])

\* A header regex of the expectation does not compile
HasBadRegex(exp) ==
    IF exp.RequestMatcher = Nil THEN FALSE
    ELSE \E k \in DOMAIN Deref(exp.RequestMatcher).Headers :
            LET pattern == Deref(exp.RequestMatcher).Headers[k].Regex
            IN IF pattern = <<>> THEN FALSE
               ELSE RegexpMatchString(pattern, <<>>).err

\* C20: an expectation with a regex that does not compile is never given a call
\* and never stops the pass: the call is given the first eligible expectation
\* among the others, or none.
C20_BadRegexFailsClosed ==
    [][ret'.op = "Call" =>
          LET c == ret'.call
              good == {j \in Takers(c) : ~HasBadRegex(ExpsFor(c)[j + 1])}
          IN IF good = {}
             THEN ret'.res = NoMatch
             ELSE ret'.res = Matched(Min(good), ExpsFor(c)[Min(good) + 1])]_vars

\* C20 witness: the call went past an expectation with an uncompilable regex to the next
C20_Witness ==
    /\ ret.op = "Call"
    /\ ExpsFor(ret.call) = <<badRegexGet, anyGet>>
    /\ ret.res = Matched(1, anyGet)

\* C18: an equals predicate on a number passes iff the expected and the observed
\* number are numerically equal, whatever the declared numeric type of either.
C18_EqualsIgnoresNumericType ==
    (probe.fn = "equals" /\ probe.done) => (probe.result <=> probe.want = probe.num)

\* C19: a range predicate passes iff the observed value is numeric and lies
\* between min and max, a bound that is absent not constraining its side.
C19_RangeAbsentBoundUnbounded ==
    (probe.fn = "range" /\ probe.done)
    => (probe.result <=> (/\ probe.numeric
                          /\ probe.min # Nil => Deref(probe.min) <= probe.num
                          /\ probe.max # Nil => probe.num <= Deref(probe.max)))

\* A ClearAll has emptied the expectations and not yet the recorded calls
PartlyCleared == \E d \in Callers : pc[d] = "clear.half"

\* C14: no GetExpectations or GetRecordedCalls takes its copy while a ClearAll
\* stands between emptying the expectations and emptying the recorded calls.
C14_ClearAtomicForReaders ==
    [][\A c \in Callers :
          (pc[c] \in {"getexp.locked", "getcalls.locked"} /\ pc'[c] # pc[c])
          => ~PartlyCleared]_vars

\* C14 witness: GetRecordedCalls was called, and is held back, while a ClearAll
\* has emptied the expectations only and calls are still recorded
C14_Witness ==
    /\ PartlyCleared
    /\ \E c \in Callers : pc[c] = "getcalls.wait"
    /\ DOMAIN expectationsStore = {}
    /\ recordedCalls # <<>>

\* C15: a change made to a map returned by GetExpectations, to its lists or to
\* the expectations in them (their response and times included) leaves what the
\* store holds as it was, and an AddExpectation or ClearAll leaves every map
\* returned earlier as it was.
C15_SnapshotNotAliased ==
    [][/\ ret'.op = "MutateSnapshot" =>
              ResolveAll(expectationsStore', heap') = ResolveAll(expectationsStore, heap)
       /\ ret'.op \in {"AddExpectation", "ClearAll"} =>
              \A c \in Callers : ResolveAll(snap'[c], heap') = ResolveAll(snap[c], heap)]_vars

\* C27: the satisfaction report marks (method, index) satisfied iff its expectation
\* has no times policy, or exact > 0 and count = exact, or exact = 0 and count is
\* at least min (when min > 0) and at most max (when max > 0); count is 0 when
\* there is no counter.
C27_SatisfiedReport ==
    (probe.fn = "satisfied" /\ probe.done)
    => (probe.satisfied <=>
          \/ probe.times = Nil
          \/ /\ probe.times # Nil
             /\ LET t == probe.times[1]
                IN \/ t.Exact > 0 /\ probe.count = t.Exact
                   \/ /\ t.Exact = 0
                      /\ t.Min = 0 \/ probe.count >= t.Min
                      /\ t.Max = 0 \/ probe.count <= t.Max)

\* C27 witness: exact = 1 with max = 2 and two matches is reported unsatisfied
C27_Witness ==
    /\ probe.fn = "satisfied"
    /\ probe.done
    /\ probe.times = Ptr(Times(0, 2, 1))
    /\ probe.count = 2
    /\ ~probe.satisfied

\* C21: a regex predicate posted with an empty pattern, on a field or on a header,
\* passes only when the observed value is the empty string.
C21_EmptyPatternOnlyEmptyValue ==
    (/\ probe.fn \in {"regex", "headerRegex"}
     /\ probe.done
     /\ probe.posted = Ptr(<<>>)
     /\ probe.result)
    => probe.observed = <<>>

\* C22: matchBody passes iff every field named in the matcher exists in the body
\* and passes each kind of predicate its matcher has (equals, regex, contains,
\* range); a field missing from the body fails the match.
C22_BodyAllFieldsAllKinds ==
    (probe.fn = "body" /\ probe.done)
    => (probe.result <=>
          \A k \in DOMAIN probe.expected :
              /\ k \in DOMAIN probe.actual
              /\ LET m == probe.expected[k]
                     v == Ptr(probe.actual[k])
                 IN /\ m.Equals # Nil => matchField(FieldMatcher(m.Equals, <<>>, Nil, Nil), v)
                    /\ m.Regex # <<>> => matchField(FieldMatcher(Nil, m.Regex, Nil, Nil), v)
                    /\ m.Contains # Nil =>
                           matchField(FieldMatcher(Nil, <<>>, m.Contains, Nil), v)
                    /\ m.Range # Nil => matchField(FieldMatcher(Nil, <<>>, Nil, m.Range), v))

\* C22 witness: a matcher on "id" and "n" against a body that has "id" only fails,
\* although the predicate on "id" passes
C22_Witness ==
    /\ probe.fn = "body"
    /\ probe.done
    /\ DOMAIN probe.expected = {"id", "n"}
    /\ DOMAIN probe.actual = {"id"}
    /\ matchField(probe.expected["id"], Ptr(probe.actual["id"]))
    /\ ~probe.result

\* C23: matchHeaders passes iff for every header named in the matcher: exists
\* (when set) equals whether the header has a value, equals (when set) is one of
\* the header's values, and regex (when set) matches one of the header's values.
C23_HeadersAllNamedAnyValue ==
    (probe.fn = "headers" /\ probe.done)
    => (probe.result <=>
          \A key \in DOMAIN probe.expected :
              LET m == probe.expected[key]
                  vals == IF ToLower(key) \in DOMAIN probe.actual
                          THEN probe.actual[ToLower(key)] ELSE <<>>
                  Matches(text) == LET r == RegexpMatchString(m.Regex, text)
                                   IN ~r.err /\ r.matched
              IN /\ m.Exists # Nil => (m.Exists[1] <=> Len(vals) > 0)
                 /\ m.Equals # <<>> => \E i \in 1 .. Len(vals) : vals[i] = m.Equals
                 /\ m.Regex # <<>> => \E i \in 1 .. Len(vals) : Matches(vals[i]))

\* C23 witness: equals "prod" passes on a header whose second value is "prod"
C23_Witness ==
    /\ probe.fn = "headers"
    /\ probe.done
    /\ probe.expected["X-Env"].Equals = prod
    /\ "x-env" \in DOMAIN probe.actual
    /\ probe.actual["x-env"] = <<staging, prod>>
    /\ probe.result

\* C24: contains is a substring test when the expected and the observed value are
\* strings (the empty string occurs in every string) and a subset test when they
\* are collections.
C24_ContainsSubstringOrSubset ==
    (probe.fn = "contains" /\ probe.done)
    => LET e == probe.matcher.Contains[1]
           o == probe.value[1]
           Elems(q) == {q[i] : i \in 1 .. Len(q)}
       IN /\ (e.kind = "string" /\ o.kind = "string")
               => (probe.result <=>
                     \E k \in 1 .. Len(o.s) + 1 :
                         /\ k + Len(e.s) - 1 <= Len(o.s)
                         /\ SubSeq(o.s, k, k + Len(e.s) - 1) = e.s)
          /\ (e.kind = "[]interface{}" /\ o.kind = "[]interface{}")
               => (probe.result <=> Elems(e.s) \subseteq Elems(o.s))

\* C25: when the message of a call cannot be marshalled, no expectation with a body
\* field predicate matches the call, whatever its field names and expected values.
C25_UnmarshalableBodyFailsBodyPredicates ==
    (/\ ret.op = "Call"
     /\ ret.call.Body.kind = "bad"
     /\ ret.res.found)
    => \/ ret.res.exp[1].RequestMatcher = Nil
       \/ DOMAIN ret.res.exp[1].RequestMatcher[1].Body = {}

\* C26: an expectation with no request matcher, or with a matcher that has neither
\* header nor body predicates, matches any call to its method while its times
\* policy admits it: the call returns it or an expectation posted before it.
C26_EmptyMatcherMatchesAnyCall ==
    [][\A c \in BodyCalls :
          (handled' = handled + 1 /\ ret'.op = "Call" /\ ret'.call = c)
          => LET exps == MapGet(expectationsStore, c.FullMethodName, <<>>)
                 Unconstrained(exp) ==
                     IF exp.RequestMatcher = Nil THEN TRUE
                     ELSE /\ DOMAIN exp.RequestMatcher[1].Headers = {}
                          /\ DOMAIN exp.RequestMatcher[1].Body = {}
                 Admits(exp, i) ==
                     IF exp.Times = Nil THEN TRUE
                     ELSE MapGet(matchCounts, <<c.FullMethodName, i>>, 0) < exp.Times[1].Max
             IN \A n \in 1 .. Len(exps) :
                    (Unconstrained(exps[n]) /\ Admits(exps[n], n - 1))
                    => (ret'.res.found /\ ret'.res.idx <= n - 1)]_vars

\* C26 witness: a call with headers and a body is answered by the expectation with
\* an empty matcher, posted after one whose body predicate the call fails
C26_Witness ==
    /\ ret.op = "Call"
    /\ ret.call.Headers # EmptyMap
    /\ ret.res.found
    /\ ret.res.idx = 1
    /\ ret.res.exp = Ptr(emptyMatcherGet)

\* C28: recorded calls are an append-only sequence in arrival order, and so is the
\* expectation list of each method: GetRecordedCalls and GetExpectations return the
\* lists as they are, and every step other than the two assignments of ClearAll
\* leaves each list a prefix of its next value.
C28_AppendOnly ==
    [][LET IsPrefix(a, b) == Len(a) <= Len(b) /\ SubSeq(b, 1, Len(a)) = a
           clearing == \E c \in Callers :
                          pc[c] \in {"clear.locked", "clear.half"} /\ pc'[c] # pc[c]
       IN /\ ~clearing =>
                /\ IsPrefix(recordedCalls, recordedCalls')
                /\ \A m \in DOMAIN expectationsStore :
                       /\ m \in DOMAIN expectationsStore'
                       /\ IsPrefix(expectationsStore[m], expectationsStore'[m])
          /\ \A c \in Callers :
                /\ (pc[c] = "getcalls.locked" /\ pc'[c] = "getcalls.unlock")
                      => snap'[c].calls = recordedCalls
                /\ (pc[c] = "getexp.locked" /\ pc'[c] = "getexp.unlock")
                      => snap'[c].expectations = expectationsStore
                /\ (pc[c] \in {"getcalls.unlock", "getexp.unlock"} /\ pc'[c] = "idle")
                      => ret'.value = snap[c]]_vars

\* C28 witness: GetRecordedCalls returns two calls recorded at different times while
\* the store holds two different expectations for one method
C28_Witness ==
    /\ ret.op = "getcalls"
    /\ Len(ret.value.calls) = 2
    /\ ret.value.calls[1].Timestamp < ret.value.calls[2].Timestamp
    /\ ret.value.calls = recordedCalls
    /\ SvcGet \in DOMAIN expectationsStore
    /\ Len(expectationsStore[SvcGet]) = 2
    /\ expectationsStore[SvcGet][1] # expectationsStore[SvcGet][2]

\* C30: in the recorded sequence, the timestamp of each call is strictly greater
\* than the timestamp of the call recorded before it.
C30_TimestampsStrictlyIncrease ==
    \A i \in 2 .. Len(recordedCalls) :
        recordedCalls[i - 1].Timestamp < recordedCalls[i].Timestamp

\* C29: a recorded call is never changed after it is appended: a change the caller
\* makes to the header map it passed to RecordCall, or to a slice returned by
\* GetRecordedCalls and the calls in it, leaves the method, headers, body and
\* timestamp of every recorded call as they were.
C29_RecordedCallImmutable ==
    [][ret'.op \in {"MutateHeaders", "MutateSnapshot"} =>
          ResolveCalls(recordedCalls', heap') = ResolveCalls(recordedCalls, heap)]_vars

\* C31: no operation other than a full clear lowers or removes a match counter.
C31_CountersNeverDecrease ==
    [][ret'.op # "ClearAll" =>
          \A k \in DOMAIN matchCounts :
              /\ k \in DOMAIN matchCounts'
              /\ matchCounts'[k] >= matchCounts[k]]_vars

\* C38: the step by which a call ends matched raises the counter of the returned
\* expectation by exactly 1 and leaves every other counter as it was; a call that
\* ends unmatched leaves all counters as they were; neither changes the stored
\* expectations.
C38_MatchedCallAddsOne ==
    [][\A c \in Callers :
          /\ (pc[c] = "store" /\ pc'[c] = "done") =>
                /\ matchCounts' = MapPut(matchCounts, CurrentKey(c),
                                         MapGet(matchCounts, CurrentKey(c), 0) + 1)
                /\ expectationsStore' = expectationsStore
          /\ (pc[c] = "loop" /\ pc'[c] = "done") =>
                /\ matchCounts' = matchCounts
                /\ expectationsStore' = expectationsStore]_vars

\* C32: GetMatchCounts returns a snapshot: a match that happens after it returned
\* leaves the mapping already returned as it was, and a write to the returned
\* mapping leaves the counters used for matching as they were.
C32_CountsSnapshot ==
    [][/\ (ret'.op = "Call" /\ handled' = handled + 1) =>
              \A c \in Callers : snap[c] # Nil => At(heap', snap'[c]) = At(heap, snap[c])
       /\ ret'.op = "MutateSnapshot" =>
              At(heap', matchCounts') = At(heap, matchCounts)]_vars

\* C33: whatever the stored expectations and the call (any headers, no message or
\* one that does not marshal, patterns that do not compile, values of the wrong
\* type for a predicate), FindMatchingExpectation ends with nil or with one of the
\* expectations stored for the call's method, and the process is not stopped.
C33_MatchingTotal ==
    ret.op = "Call" =>
        /\ ~fatal
        /\ \/ ret.res = NoMatch
           \/ /\ ret.res.found
              /\ LET exps == MapGet(expectationsStore, ret.call.FullMethodName, <<>>)
                 IN \E i \in 1 .. Len(exps) :
                        ret.res.idx = i - 1 /\ ret.res.exp = Ptr(exps[i])

\* C33 witness: a call whose message does not marshal ends unmatched on a store
\* holding a pattern that does not compile and predicates of the wrong type
C33_Witness ==
    /\ ret.op = "Call"
    /\ ret.call.Body.kind = "bad"
    /\ SvcGet \in DOMAIN expectationsStore
    /\ expectationsStore[SvcGet] = <<badRegexGet, wrongTypeGet>>
    /\ ret.res = NoMatch

\* C34: between two ClearAll operations an expectation keeps its (method, index):
\* an AddExpectation or a handled call (RecordCall and matching) leaves every
\* stored expectation at its position, so the counter of a (method, index) stays
\* with the same expectation.
C34_PositionsStable ==
    [][ret'.op # "ClearAll" =>
          \A m \in DOMAIN expectationsStore :
              /\ m \in DOMAIN expectationsStore'
              /\ Len(expectationsStore'[m]) >= Len(expectationsStore[m])
              /\ \A i \in 1 .. Len(expectationsStore[m]) :
                     expectationsStore'[m][i] = expectationsStore[m][i]]_vars

\* C34 witness: a call is answered by the second of two different expectations of
\* its method, which has a counter of its own
C34_Witness ==
    /\ ret.op = "Call"
    /\ ret.res.found
    /\ ret.res.idx = 1
    /\ Len(expectationsStore[SvcGet]) = 2
    /\ expectationsStore[SvcGet][1] # expectationsStore[SvcGet][2]
    /\ ret.res.exp = Ptr(expectationsStore[SvcGet][2])
    /\ MapGet(matchCounts, Key(SvcGet, 1), 0) > 0

\* C35: store writes exclude one another, so none is lost: once J valid
\* AddExpectation calls and K RecordCall calls have completed, in any interleaving
\* and with no ClearAll, the store holds exactly J expectations and K recorded calls.
C35_NoLostWrite ==
    (\A c \in Callers : pc[c] \in {"idle", "add.done", "record.done", "reject.done"})
    => LET Total(S) == Cardinality({<<m, i>> \in S \X (1 .. NumCallers) :
                                       i <= Len(expectationsStore[m])})
       IN /\ Total(DOMAIN expectationsStore)
                = Cardinality({c \in Callers : pc[c] = "add.done"})
          /\ Len(recordedCalls) = Cardinality({c \in Callers : pc[c] = "record.done"})

\* C35 witness: every goroutine has completed an AddExpectation for the same
\* method, and all their expectations are stored
C35_Witness ==
    /\ \A c \in Callers : pc[c] = "add.done"
    /\ SvcGet \in DOMAIN expectationsStore
    /\ Len(expectationsStore[SvcGet]) = NumCallers

\* A document with every number converted to float64
RECURSIVE Canon(_)
Canon(d) ==
    IF d.kind = "map" THEN MapValue([k \in DOMAIN d.m |-> Canon(d.m[k])])
    ELSE IF d.kind = "slice" THEN ListValue([i \in 1 .. Len(d.e) |-> Canon(d.e[i])])
    ELSE IF d.kind \in NumericKinds THEN Float64Value(d.v)
    ELSE d

\* Every expected key is in the observed map with a value that is, in turn, within
\* the observed one; sequences are compared with the observed prefix.  The
\* elements of a sequence are compared by Elem.
RECURSIVE Within(_, _, _)
Within(e, o, exactElems) ==
    IF e.kind = "map" /\ o.kind = "map"
    THEN \A k \in DOMAIN e.m :
             IF k \in DOMAIN o.m THEN Within(e.m[k], o.m[k], exactElems) ELSE FALSE
    ELSE IF e.kind = "slice" /\ o.kind = "slice"
    THEN /\ Len(e.e) <= Len(o.e)
         /\ \A i \in 1 .. Len(e.e) :
                IF i > Len(o.e) THEN FALSE
                ELSE IF exactElems THEN Canon(e.e[i]) = Canon(o.e[i])
                ELSE Within(e.e[i], o.e[i], exactElems)
    ELSE Canon(e) = Canon(o)

\* C36: exact deep comparison succeeds iff at every nested level the maps have the
\* same keys and the sequences the same length, and corresponding leaves are equal
\* once numbers are converted to one type.
C36_ExactIsCanonicalEquality ==
    (probe.fn = "deepCompare" /\ probe.done /\ probe.exact)
    => (probe.result <=> Canon(probe.expected) = Canon(probe.actual))

\* C36 witness: exact comparison accepts a list holding int 1 against one holding
\* float64 1, inside a map
C36_Witness ==
    /\ probe.fn = "deepCompare"
    /\ probe.done
    /\ probe.exact
    /\ probe.expected = MapValue([k \in {"items"} |-> ListValue(<<NumberValue("int", 1)>>)])
    /\ probe.actual = MapValue([k \in {"items"} |-> ListValue(<<Float64Value(1)>>)])
    /\ probe.result

\* C37 as stated: subset comparison succeeds iff every expected key is in the
\* observed document with an equal value at every nested level, extra observed keys
\* being allowed at every level, and each expected sequence is compared position
\* by position with the observed prefix of its length.
C37_SubsetAtEveryLevel ==
    (probe.fn = "deepCompare" /\ probe.done /\ ~probe.exact)
    => (probe.result <=> Within(probe.expected, probe.actual, FALSE))

\* C37 amended: as above, except that the elements of a sequence are compared
\* exactly (a map inside a sequence must have the expected keys and no other).
C37_SubsetExactInsideSequences ==
    (probe.fn = "deepCompare" /\ probe.done /\ ~probe.exact)
    => (probe.result <=> Within(probe.expected, probe.actual, TRUE))

\* C37 witness: subset comparison accepts a shorter list and an extra key of the
\* enclosing map's sibling, and rejects an extra key in a map inside the list
C37_Witness ==
    /\ probe.fn = "deepCompare"
    /\ probe.done
    /\ ~probe.exact
    /\ probe.expected =
          MapValue([k \in {"items"} |-> ListValue(<<MapValue([j \in {"a"} |-> Float64Value(1)])>>)])
    /\ probe.actual =
          MapValue([k \in {"items"} |->
                      ListValue(<<MapValue([j \in {"a", "b"} |-> Float64Value(1)])>>)])
    /\ ~probe.result

\* The methods each control-plane path supports
Supported(path) == IF path = "/expectations" THEN {"POST", "GET", "DELETE"} ELSE {"GET"}

UnsupportedRequest(r) == IF r.op = "HTTP" THEN r.method \notin Supported(r.path) ELSE FALSE

\* C39: a request to /expectations or /verifications with a method the path does
\* not support is answered with status 405 and a JSON error document saying
\* "Method not allowed", the handler does not panic, and the store is unchanged.
C39_MethodNotAllowedAnswered ==
    [][UnsupportedRequest(ret') =>
          /\ ret'.response.status = 405
          /\ ~ret'.response.panicked
          /\ ret'.response.body # NoBody
          /\ UNCHANGED storeVars]_vars

\* Positions <<file, service>> of the services in the files to generate
GenPositions(files) ==
    UNION {{<<f, j>> : j \in 1 .. Len(files[f].Services)} :
              f \in {x \in 1 .. Len(files) : files[x].Generate}}

PosBefore(p, q) == p[1] < q[1] \/ (p[1] = q[1] /\ p[2] <= q[2])

\* The Go name at a position, how often it occurs, and the occurrence number
\* of a position among the positions with its Go name
NameAt(files, p) == files[p[1]].Services[p[2]].GoName
Occurrences(files, g) == Cardinality({p \in GenPositions(files) : NameAt(files, p) = g})
OccurrenceNo(files, p) ==
    Cardinality({q \in GenPositions(files) :
                    NameAt(files, q) = NameAt(files, p) /\ PosBefore(q, p)})
Rank(files, p) == Cardinality({q \in GenPositions(files) : PosBefore(q, p)})

====
